---- MODULE Spec2Model ----
(***************************************************************************)
(* A model of the core of wasm-pkg-tools: the digest-validating content    *)
(* stream, the wkg.lock file with its advisory OS lock, the dependency     *)
(* resolver and the registry-to-driver map of the client.                  *)
(*                                                                         *)
(* Each subsystem has its own variables, initial predicate and next-state  *)
(* relation; a specification of one subsystem keeps the variables of the   *)
(* others at their idle values.                                            *)
(***************************************************************************)
EXTENDS Integers, Sequences, FiniteSets, TLC

VARIABLES
    \* ---- validating stream (wasm-pkg-loader/src/release.rs) ----
    source,     \* the items the upstream TryStream yields, in order
    upstream,   \* the items the upstream has not yielded yet
    want,       \* the expected digest (self.clone())
    hasher,     \* the Sha256 state carried by scan
    chain,      \* position of stream.chain(once(..)): "first", "second", "done"
    emitted,    \* the items the validating stream has yielded to its consumer
    ended,      \* the validating stream has returned end-of-stream (None)
    checked,    \* the Ok(None) arm (the digest comparison) has run
    \* ---- wkg.lock and its advisory lock (wasm-pkg-core/src/lock.rs) ----
    fs,         \* the filesystem of the path: "local", "nfs" or "nolock"
    exists,     \* the file exists at the path
    file,       \* the content of the file at the path, a sequence of lines
    flocks,     \* per handle: the OS lock its open file holds
    locker,     \* per handle: the Locker (state, access, cursor of its File)
    lockFile,   \* per handle: the LockFile in memory (version, packages)
    lastOp,     \* per handle: the outcome of the last try_open_* or load_from_path
    lastWrite,  \* what the last completed write() wrote
    online,       \* the caching client has an inner client
    rlock,        \* the packages of the lock file the resolver reads
    cache,        \* the releases in the file cache
    dependencies, \* DependencyResolver.dependencies
    resolutions,  \* DependencyResolver.resolutions
    packages,     \* DependencyResolver.packages: version lists already loaded
    iter,         \* the iterator of resolve() over the dependencies
    result,       \* what resolve() returned
    sources,      \* Client.sources: the (registry, driver) entries of the map
    task,         \* per task: its call of resolve_source
    registry_configs, \* Config.registry_configs: per registry its RegistryConfig
    registry_mapping, \* Config: the mapping with inline metadata, if any
    fetched,      \* per registry: the metadata fetch_or_default answers
    config,       \* the Config a lookup is made in
    lookup,       \* the last lookup: what resolve_registry and the client answered
    client,       \* CachingClient.client is Some
    releases,     \* FileCache: the release records on disk
    datafile,     \* FileCache: the content file of the release's digest
    call,         \* per task: its call of a CachingClient operation
    store,        \* the local registries: per registry and package its directory
    publishes,    \* how many releases were published
    last,         \* the last publish: what was published and how it returned
    fetch,        \* the last fetch operation and what it returned
    inputs,       \* the Dependency::Package each name was added with
    past,         \* the first resolution, once the lock file was updated from it
    calls,        \* the add_dependency and override_dependency calls made so far
    digestStr,    \* the string given to the ContentDigest parser
    digestParsed, \* what the parser returned, and the value printed back
    resp,         \* what the OCI registry answers to list_tags
    listing,      \* what list_all_versions returned and logged
    metadata,     \* a RegistryMetadata document
    preferred,    \* what preferred_protocol() returned for it
    credentials,      \* OciBackend.credentials: TRUE for Some(BasicCredentials)
    docker,           \* what docker_credential::get_credential answers
    registry_auth,    \* OciBackend.registry_auth: the OnceCell<RegistryAuth>
    auth_call,        \* the calls of OciBackend::auth, one per task
    preflights,       \* the client.auth requests made so far, in order
    decode_input,     \* a DependencyResolutionMap and what its resolutions decode to
    decode_output,    \* what decode_dependencies returned for it
    fetch_registry,   \* the Registry whose metadata is fetched
    fetch_url         \* the URL RegistryMetadata::fetch asked for, once it did

streamVars == <<source, upstream, want, hasher, chain, emitted, ended, checked>>

lockVars == <<fs, exists, file, flocks, locker, lockFile, lastOp, lastWrite>>

resolverVars == <<online, rlock, cache, dependencies, resolutions, packages, iter, result>>

clientVars == <<sources, task, registry_configs, registry_mapping, fetched>>

configVars == <<config, lookup>>

cacheVars == <<client, releases, datafile, call>>

localVars == <<store, publishes, last, fetch>>

relockVars == <<inputs, past>>

addsVars == <<calls>>

digestVars == <<digestStr, digestParsed>>

tagsVars == <<resp, listing>>

metaVars == <<metadata, preferred>>

authVars == <<credentials, docker, registry_auth, auth_call, preflights>>

decodeVars == <<decode_input, decode_output>>

fetchVars == <<fetch_registry, fetch_url>>

vars == <<streamVars, lockVars, resolverVars, clientVars, configVars, cacheVars, localVars, relockVars, addsVars, digestVars, tagsVars, metaVars, authVars, decodeVars, fetchVars>>

(***************************************************************************)
(* Bounds of the model.                                                    *)
(***************************************************************************)
MaxChunkLen == 1
MaxChunks == 3
MaxHandles == 2
MaxNames == 2
MaxMinor == 2
MaxDigest == 2
MaxTasks == 2
MaxRegistries == 2
MaxLabels == 1
MaxBlocks == 2
MaxPublishes == 1

(***************************************************************************)
(* Small helpers.                                                          *)
(***************************************************************************)
SeqsUpTo(S, n) == UNION {[1..k -> S] : k \in 0..n}

Last(s) == s[Len(s)]

(***************************************************************************)
(* SHA-256, abstracted.  A digest is a deterministic function of the bytes *)
(* fed to the hasher, computed incrementally byte by byte, so that feeding *)
(* a byte sequence in any chunking gives the same digest.  The digest      *)
(* space is tiny, so distinct contents may collide; nothing below relies   *)
(* on collision resistance.                                                *)
(***************************************************************************)
Byte == {0, 1}

DigestSpace == 0..3

\* A well-formed digest value that is the hash of no content
\* (the test's hex: "doesn't match anything!").
BogusDigest == Cardinality(DigestSpace)

ContentDigest == DigestSpace \cup {BogusDigest}

Sha256New == 0

RECURSIVE Sha256Update(_, _)
Sha256Update(h, bytes) ==
    IF bytes = <<>> THEN h
    ELSE Sha256Update((2 * h + Head(bytes) + 1) % Cardinality(DigestSpace), Tail(bytes))

\* From<Sha256> for ContentDigest: finalize the hasher.
Sha256Finalize(h) == h

Sha256Of(bytes) == Sha256Finalize(Sha256Update(Sha256New, bytes))

(***************************************************************************)
(* ContentDigest::validating_stream                                        *)
(*   stream.map_ok(Some).chain(once(async { Ok(None) })).scan(hasher, f)   *)
(***************************************************************************)
Chunk == SeqsUpTo(Byte, MaxChunkLen)

\* Items of the upstream TryStream<Ok = Bytes, Error = Error>.
OkItem(bytes) == [tag |-> "Ok", bytes |-> bytes, expected |-> 0, actual |-> 0]
ErrItem == [tag |-> "Err", bytes |-> <<>>, expected |-> 0, actual |-> 0]
InvalidContent(w, g) ==
    [tag |-> "InvalidContent", bytes |-> <<>>, expected |-> w, actual |-> g]

UpstreamItem == {OkItem(b) : b \in Chunk} \cup {ErrItem}

\* What the chained stream hands to the scan closure.
ResSome(item) == [kind |-> "item", item |-> item]
ResNone == [kind |-> "end", item |-> ErrItem]

\* A variant of the closure that compares the digests but reports nothing.
ScanClosureSilent(h, res, w) ==
    IF res.kind = "end"
    THEN [hasher |-> Sha256New, yield |-> FALSE, item |-> ErrItem, checked |-> TRUE]
    ELSE IF res.item.tag = "Ok"
    THEN [hasher |-> Sha256Update(h, res.item.bytes), yield |-> TRUE,
          item |-> res.item, checked |-> FALSE]
    ELSE [hasher |-> h, yield |-> TRUE, item |-> res.item, checked |-> FALSE]

\* A variant of the closure that forwards the chunks without hashing them.
ScanClosureNoUpdate(h, res, w) ==
    IF res.kind = "end"
    THEN LET got == Sha256Finalize(h) IN
         IF got = w
         THEN [hasher |-> Sha256New, yield |-> FALSE, item |-> ErrItem, checked |-> TRUE]
         ELSE [hasher |-> Sha256New, yield |-> TRUE,
               item |-> InvalidContent(w, got), checked |-> TRUE]
    ELSE [hasher |-> h, yield |-> TRUE, item |-> res.item, checked |-> FALSE]

\* A variant of the closure that ends the stream at the first upstream error.
ScanClosureStopOnErr(h, res, w) ==
    IF res.kind = "end"
    THEN LET got == Sha256Finalize(h) IN
         IF got = w
         THEN [hasher |-> Sha256New, yield |-> FALSE, item |-> ErrItem, checked |-> TRUE]
         ELSE [hasher |-> Sha256New, yield |-> TRUE,
               item |-> InvalidContent(w, got), checked |-> TRUE]
    ELSE IF res.item.tag = "Ok"
    THEN [hasher |-> Sha256Update(h, res.item.bytes), yield |-> TRUE,
          item |-> res.item, checked |-> FALSE]
    ELSE [hasher |-> h, yield |-> FALSE, item |-> res.item, checked |-> FALSE]

\* The closure given to scan: the new hasher state, and Some(item) (yield)
\* or None (the scan stream ends).
ScanClosure(h, res, w) ==
    IF res.kind = "end"
    THEN \* Ok(None): std::mem::take(hasher).into(), compared with want
         LET got == Sha256Finalize(h) IN
         IF got = w
         THEN [hasher |-> Sha256New, yield |-> FALSE, item |-> ErrItem, checked |-> TRUE]
         ELSE [hasher |-> Sha256New, yield |-> TRUE,
               item |-> InvalidContent(w, got), checked |-> TRUE]
    ELSE IF res.item.tag = "Ok"
    THEN \* Ok(Some(bytes)): hasher.update(&bytes); Some(Ok(bytes))
         [hasher |-> Sha256Update(h, res.item.bytes), yield |-> TRUE,
          item |-> res.item, checked |-> FALSE]
    ELSE \* Err(err) => Some(Err(err))
         [hasher |-> h, yield |-> TRUE, item |-> res.item, checked |-> FALSE]

\* The variables of the other subsystems, which no step of this one changes.
StreamFrame == UNCHANGED <<lockVars, resolverVars, clientVars, configVars, cacheVars, localVars, relockVars, addsVars, digestVars, tagsVars, metaVars, authVars, decodeVars, fetchVars>>

StreamInit ==
    /\ source \in SeqsUpTo(UpstreamItem, MaxChunks)
    /\ upstream = source
    /\ want \in ContentDigest
    /\ hasher = Sha256New
    /\ chain = "first"
    /\ emitted = <<>>
    /\ ended = FALSE
    /\ checked = FALSE

StreamIdle ==
    /\ source = <<>>
    /\ upstream = <<>>
    /\ want = BogusDigest
    /\ hasher = Sha256New
    /\ chain = "done"
    /\ emitted = <<>>
    /\ ended = TRUE
    /\ checked = FALSE

\* One poll_next of the scan stream, given what the chained stream yields.
Scan(res, nextChain) ==
    LET r == ScanClosure(hasher, res, want) IN
    /\ hasher' = r.hasher
    /\ checked' = (checked \/ r.checked)
    /\ chain' = nextChain
    /\ IF r.yield
       THEN emitted' = Append(emitted, r.item) /\ ended' = FALSE
       ELSE emitted' = emitted /\ ended' = TRUE

\* poll_next while the upstream has an item: the first half of the chain.
PollUpstream ==
    /\ ~ended
    /\ chain = "first"
    /\ upstream # <<>>
    /\ upstream' = Tail(upstream)
    /\ Scan(ResSome(Head(upstream)), "first")
    /\ UNCHANGED <<source, want>>
    /\ StreamFrame

\* poll_next when the upstream is exhausted: the chain moves to once(Ok(None)).
PollFinal ==
    /\ ~ended
    /\ chain = "first"
    /\ upstream = <<>>
    /\ Scan(ResNone, "done")
    /\ UNCHANGED <<source, upstream, want>>
    /\ StreamFrame

\* poll_next after the terminal error: the chain is exhausted, scan ends.
PollEnd ==
    /\ ~ended
    /\ chain = "done"
    /\ ended' = TRUE
    /\ UNCHANGED <<source, upstream, want, hasher, chain, emitted, checked>>
    /\ StreamFrame

StreamNext == PollUpstream \/ PollFinal \/ PollEnd

(***************************************************************************)
(* Values shared by the lock file and the resolver.                        *)
(***************************************************************************)
\* semver::Version (major.minor.patch).
Ver(a, b, c) == [major |-> a, minor |-> b, patch |-> c]

\* semver::VersionReq with one comparator: Op::Caret or Op::Exact.
Req(op, a, b, c) == [op |-> op, major |-> a, minor |-> b, patch |-> c]

\* Option<String> of a registry name: 0 is None, n > 0 is Some(name n).
NoRegistry == 0

LockedPackageVersion(r, v, dg) == [requirement |-> r, version |-> v, digest |-> dg]

\* PackageRef values are numbered in their lexicographic order.
LockedPackage(n, reg, vs) == [name |-> n, registry |-> reg, versions |-> vs]

\* impl Ord for LockedPackage: by name, then by registry (None < Some).
LockedPackageLess(a, b) ==
    IF a.name = b.name THEN a.registry < b.registry ELSE a.name < b.name

SameKey(a, b) == a.name = b.name /\ a.registry = b.registry

\* BTreeSet<LockedPackage>::insert: an element with an equal key is kept.
BTreeInsert(set, p) == IF \E q \in set : SameKey(p, q) THEN set ELSE set \cup {p}

\* Iteration of a BTreeSet<LockedPackage>: ascending.
RECURSIVE BTreeIter(_)
BTreeIter(set) ==
    IF set = {} THEN <<>>
    ELSE LET least == CHOOSE p \in set : \A q \in set \ {p} : LockedPackageLess(p, q)
         IN <<least>> \o BTreeIter(set \ {least})

(***************************************************************************)
(* The on-disk form of the lock file: a sequence of lines.                 *)
(***************************************************************************)
LOCK_FILE_V1 == 1

Line(kind, n, reg, r, v, dg) ==
    [kind |-> kind, name |-> n, registry |-> reg, requirement |-> r,
     version |-> v, digest |-> dg]

NoReq == Req("-", 0, 0, 0)
NoVer == Ver(0, 0, 0)

CommentLine(n) == Line("#", n, 0, NoReq, NoVer, 0)
VersionLine(n) == Line("version =", n, 0, NoReq, NoVer, 0)
EmptyPackagesLine == Line("packages = []", 0, 0, NoReq, NoVer, 0)
PackageLine(p) == Line("[[packages]]", p.name, p.registry, NoReq, NoVer, 0)
PackageVersionLine(v) ==
    Line("[[packages.versions]]", 0, 0, v.requirement, v.version, v.digest)
\* What a read finds in a hole left by a write beyond the end of the file.
NulLine == Line("NUL", 0, 0, NoReq, NoVer, 0)

\* b"# This file is automatically generated.\n# It is not intended for manual editing.\n"
Preamble == <<CommentLine(1), CommentLine(2)>>

RECURSIVE SerializeVersions(_)
SerializeVersions(vs) ==
    IF vs = <<>> THEN <<>>
    ELSE <<PackageVersionLine(Head(vs))>> \o SerializeVersions(Tail(vs))

RECURSIVE SerializePackages(_)
SerializePackages(ps) ==
    IF ps = <<>> THEN <<>>
    ELSE <<PackageLine(Head(ps))>> \o SerializeVersions(Head(ps).versions)
             \o SerializePackages(Tail(ps))

\* toml::to_string_pretty(&LockFile): version, then the packages in set order.
TomlToString(lf) ==
    <<VersionLine(lf.version)>> \o
    (IF lf.packages = {} THEN <<EmptyPackagesLine>>
     ELSE SerializePackages(BTreeIter(lf.packages)))

ParseError == [ok |-> FALSE, version |-> 0, packages |-> {}]

\* The [[packages]] tables: each header line opens a package, the
\* [[packages.versions]] lines after it are appended to its versions.
RECURSIVE ParsePackages(_, _, _, _)
ParsePackages(lines, version, done, cur) ==
    LET close == IF cur = <<>> THEN done ELSE BTreeInsert(done, cur[1]) IN
    IF lines = <<>> THEN [ok |-> TRUE, version |-> version, packages |-> close]
    ELSE LET l == Head(lines) IN
         IF l.kind = "#" THEN ParsePackages(Tail(lines), version, done, cur)
         ELSE IF l.kind = "[[packages]]"
         THEN ParsePackages(Tail(lines), version, close,
                            <<LockedPackage(l.name, l.registry, <<>>)>>)
         ELSE IF l.kind = "[[packages.versions]]" /\ cur # <<>>
         THEN ParsePackages(Tail(lines), version, done,
                  <<[cur[1] EXCEPT !.versions = Append(@,
                        LockedPackageVersion(l.requirement, l.version, l.digest))]>>)
         ELSE ParseError

\* toml::from_str::<LockFileIntermediate>: the version key is required and
\* comes before the tables; `packages` defaults to the empty set.
RECURSIVE TomlFromStr(_)
TomlFromStr(lines) ==
    IF lines = <<>> THEN ParseError
    ELSE LET l == Head(lines) IN
         IF l.kind = "#" THEN TomlFromStr(Tail(lines))
         ELSE IF l.kind # "version =" THEN ParseError
         ELSE LET rest == SelectSeq(Tail(lines), LAMBDA x : x.kind # "#") IN
              IF rest # <<>> /\ Head(rest).kind = "packages = []"
              THEN IF Len(rest) = 1
                   THEN [ok |-> TRUE, version |-> l.name, packages |-> {}]
                   ELSE ParseError
              ELSE ParsePackages(rest, l.name, {}, <<>>)

(***************************************************************************)
(* The file behind a Locker: positioned writes, truncation.                *)
(***************************************************************************)
\* write_all at the cursor: overwrites, extends, and leaves a hole when the
\* cursor lies beyond the end of the file.  pos is the number of lines
\* before the cursor.
WriteAll(f, pos, data) ==
    LET hole == [i \in 1..(pos - Len(f)) |-> NulLine]
        base == f \o hole
        end == IF pos + Len(data) > Len(base) THEN pos + Len(data) ELSE Len(base)
    IN [file |-> [i \in 1..end |->
                     IF i > pos /\ i <= pos + Len(data) THEN data[i - pos] ELSE base[i]],
        cursor |-> pos + Len(data)]

\* set_len(n) for n <= the length of the file.
SetLen(f, n) == SubSeq(f, 1, n)

\* A variant of write that rewinds but does not truncate.
LockFileWriteNoTruncate(f, cursor, lf) ==
    LET w1 == WriteAll(f, 0, Preamble)
    IN WriteAll(w1.file, w1.cursor, TomlToString(lf))

\* LockFile::write: rewind, set_len(0), the preamble, the TOML, sync_all.
LockFileWrite(f, cursor, lf) ==
    LET contents == TomlToString(lf)
        rewound == 0
        truncated == SetLen(f, 0)
        w1 == WriteAll(truncated, rewound, Preamble)
    IN WriteAll(w1.file, w1.cursor, contents)

(***************************************************************************)
(* The OS lock: flock(LOCK_SH | LOCK_EX [| LOCK_NB]) on the open file.     *)
(***************************************************************************)
Handle == 1..MaxHandles

\* A lock that any other lock excludes.
GrantableAlone(h, access) == \A g \in Handle \ {h} : flocks[g] = "none"

\* The lock can be granted to h: an exclusive lock excludes every other
\* lock, a shared lock excludes an exclusive one.
Grantable(h, access) ==
    \A g \in Handle \ {h} :
        IF access = "Exclusive" THEN flocks[g] = "none" ELSE flocks[g] # "ex"

\* The result of sys::try_lock_* (LOCK_NB) for h.
TryFlock(h, access) ==
    IF fs = "nolock" THEN "unsupported"
    ELSE IF Grantable(h, access) THEN "ok" ELSE "contended"

\* A variant that takes a contended lock for a filesystem without locks.
OpenResultContendedIgnored(res, try_lock) ==
    IF res \in {"ok", "unsupported", "contended"} THEN "Some" ELSE "Err"

\* The `match res` at the end of Locker::open.
OpenResult(res, try_lock) ==
    IF res = "ok" THEN "Some"
    ELSE IF res = "unsupported" THEN "Some"
    ELSE IF try_lock /\ res = "contended" THEN "None"
    ELSE "Err"

\* An open that takes no lock.
HeldLockNone(res, access) == "none"

\* The OS lock the handle holds after sys::lock_* returned res.
HeldLock(res, access) ==
    IF res = "ok" THEN (IF access = "Exclusive" THEN "ex" ELSE "sh") ELSE "none"

ClosedLocker == [st |-> "closed", access |-> "Shared", op |-> "-", cursor |-> 0]
NoLockFile == [version |-> 0, packages |-> {}]

\* The packages the lock file is given, written with and initially holds.
PackagePool ==
    { LockedPackage(2, NoRegistry,
          <<LockedPackageVersion(Req("=", 0, 1, 0), Ver(0, 1, 0), 1)>>),
      LockedPackage(1, 1,
          <<LockedPackageVersion(Req("^", 0, 2, 0), Ver(0, 2, 0), 1),
            LockedPackageVersion(Req("=", 0, 2, 1), Ver(0, 2, 1), 2)>>) }

InitialFiles ==
    { <<>>,
      Preamble \o TomlToString([version |-> LOCK_FILE_V1, packages |-> PackagePool]),
      Preamble \o TomlToString([version |-> LOCK_FILE_V1 + 1, packages |-> {}]) }

LockFrame == UNCHANGED <<streamVars, resolverVars, clientVars, configVars, cacheVars, localVars, relockVars, addsVars, digestVars, tagsVars, metaVars, authVars, decodeVars, fetchVars>>

LockInit ==
    /\ fs \in {"local", "nfs", "nolock"}
    /\ exists \in BOOLEAN
    /\ file \in (IF exists THEN InitialFiles ELSE {<<>>})
    /\ flocks = [h \in Handle |-> "none"]
    /\ locker = [h \in Handle |-> ClosedLocker]
    /\ lockFile = [h \in Handle |-> NoLockFile]
    /\ lastOp = [h \in Handle |-> "-"]
    /\ lastWrite = [written |-> FALSE, packages |-> {}, shrunk |-> FALSE]

LockIdle ==
    /\ fs = "local"
    /\ exists = FALSE
    /\ file = <<>>
    /\ flocks = [h \in Handle |-> "none"]
    /\ locker = [h \in Handle |-> ClosedLocker]
    /\ lockFile = [h \in Handle |-> NoLockFile]
    /\ lastOp = [h \in Handle |-> "-"]
    /\ lastWrite = [written |-> FALSE, packages |-> {}, shrunk |-> FALSE]

\* read_to_string through the Locker: the rest of the file from the cursor,
\* which ends at the end of the file.
ReadToString(f, cursor) ==
    [contents |-> SubSeq(f, cursor + 1, Len(f)), cursor |-> Len(f)]

\* A load that leaves the cursor where the read ended.
LoadFromPathNoRewind(f, cursor) ==
    LET read == ReadToString(f, cursor)
        lock_file == TomlFromStr(read.contents)
    IN IF ~lock_file.ok \/ lock_file.version # LOCK_FILE_V1
       THEN [ok |-> FALSE, lock_file |-> NoLockFile, cursor |-> read.cursor]
       ELSE [ok |-> TRUE,
             lock_file |-> [version |-> lock_file.version, packages |-> lock_file.packages],
             cursor |-> read.cursor]

\* LockFile::load_from_path after the open: the file is read to its end and
\* parsed, a version other than LOCK_FILE_V1 is an error, and the file is
\* rewound.
LoadFromPath(f, cursor) ==
    LET read == ReadToString(f, cursor)
        lock_file == TomlFromStr(read.contents)
    IN IF ~lock_file.ok \/ lock_file.version # LOCK_FILE_V1
       THEN [ok |-> FALSE, lock_file |-> NoLockFile, cursor |-> read.cursor]
       ELSE [ok |-> TRUE,
             lock_file |-> [version |-> lock_file.version, packages |-> lock_file.packages],
             cursor |-> 0]

\* What the caller of the pending operation gets once the Locker is open:
\* Locker::open_* return the Locker, new_with_path builds the LockFile,
\* load_from_path reads, parses, checks the version and rewinds.
Opened(h, access, op, pkgs, held) ==
    LET loaded == LoadFromPath(file, 0) IN
    IF op = "load" /\ ~loaded.ok
    THEN \* the error return drops the Locker, which unlocks
         /\ locker' = [locker EXCEPT ![h] = ClosedLocker]
         /\ flocks' = [flocks EXCEPT ![h] = "none"]
         /\ lockFile' = [lockFile EXCEPT ![h] = NoLockFile]
         /\ lastOp' = [lastOp EXCEPT ![h] = "load_err"]
    ELSE /\ locker' = [locker EXCEPT ![h] =
                          [st |-> "open", access |-> access, op |-> op,
                           cursor |-> IF op = "load" THEN loaded.cursor ELSE 0]]
         /\ flocks' = [flocks EXCEPT ![h] = held]
         /\ lockFile' = [lockFile EXCEPT ![h] =
                IF op = "load"
                THEN loaded.lock_file
                ELSE IF op = "new"
                THEN [version |-> LOCK_FILE_V1, packages |-> pkgs]
                ELSE NoLockFile]
         /\ lastOp' = [lastOp EXCEPT ![h] = IF op = "load" THEN "load_ok" ELSE "-"]

\* opts.open(&path): read-only options need the file, create(true) makes it.
CanOpenFile(access) == access = "Exclusive" \/ exists

\* Locker::open with try_lock = false, as called by Locker::open_rw and
\* Locker::open_ro (op "open"), LockFile::new_with_path (op "new") and
\* LockFile::load_from_path (op "load"): returns at once when the lock is
\* free or not taken at all, and otherwise waits in spawn_blocking.
Open(h, access, op, pkgs) ==
    /\ locker[h].st = "closed"
    /\ CanOpenFile(access)
    /\ op = "new" => access = "Exclusive"
    /\ exists' = TRUE
    /\ IF fs = "nfs"
       THEN Opened(h, access, op, pkgs, "none")
       ELSE IF fs = "nolock"
       THEN Opened(h, access, op, pkgs, HeldLock("unsupported", access))
       ELSE IF Grantable(h, access)
       THEN Opened(h, access, op, pkgs, HeldLock("ok", access))
       ELSE /\ locker' = [locker EXCEPT ![h] =
                             [st |-> "waiting", access |-> access, op |-> op, cursor |-> 0]]
            /\ lockFile' = [lockFile EXCEPT ![h] =
                               [version |-> LOCK_FILE_V1, packages |-> pkgs]]
            /\ lastOp' = [lastOp EXCEPT ![h] = "-"]
            /\ UNCHANGED flocks
    /\ UNCHANGED <<fs, file, lastWrite>>
    /\ LockFrame

\* The blocking flock of a waiting open returns: the lock was released.
Granted(h) ==
    /\ locker[h].st = "waiting"
    /\ Grantable(h, locker[h].access)
    /\ Opened(h, locker[h].access, locker[h].op, lockFile[h].packages,
              HeldLock("ok", locker[h].access))
    /\ UNCHANGED <<fs, exists, file, lastWrite>>
    /\ LockFrame

\* Locker::try_open_rw and Locker::try_open_ro (try_lock = true).
TryOpen(h, access) ==
    /\ locker[h].st = "closed"
    /\ CanOpenFile(access)
    /\ exists' = TRUE
    /\ LET res == TryFlock(h, access)
           ret == IF fs = "nfs" THEN "Some" ELSE OpenResult(res, TRUE)
       IN IF ret = "Some"
          THEN /\ locker' = [locker EXCEPT ![h] =
                      [st |-> "open", access |-> access, op |-> "open", cursor |-> 0]]
               /\ flocks' = [flocks EXCEPT ![h] =
                      IF fs = "nfs" THEN "none" ELSE HeldLock(res, access)]
               /\ lastOp' = [lastOp EXCEPT ![h] = "try_some"]
          ELSE \* Ok(None) or Err: the Locker is dropped, its file closed
               /\ locker' = [locker EXCEPT ![h] = ClosedLocker]
               /\ flocks' = [flocks EXCEPT ![h] = "none"]
               /\ lastOp' = [lastOp EXCEPT ![h] =
                      IF ret = "None" THEN "try_none" ELSE "try_err"]
    /\ lockFile' = [lockFile EXCEPT ![h] = NoLockFile]
    /\ UNCHANGED <<fs, file, lastWrite>>
    /\ LockFrame

\* A drop that leaves the lock held.
UnlockKept(fl, h) == fl

\* sys::unlock(&self.file): LOCK_UN.
Unlock(fl, h) == [fl EXCEPT ![h] = "none"]

\* impl Drop for Locker: sys::unlock, and the file is closed.
Drop(h) ==
    /\ locker[h].st = "open"
    /\ locker' = [locker EXCEPT ![h] = ClosedLocker]
    /\ flocks' = Unlock(flocks, h)
    /\ lockFile' = [lockFile EXCEPT ![h] = NoLockFile]
    /\ lastOp' = [lastOp EXCEPT ![h] = "-"]
    /\ UNCHANGED <<fs, exists, file, lastWrite>>
    /\ LockFrame

IsLockFile(h) == locker[h].st = "open" /\ locker[h].op \in {"new", "load"}

\* The caller changes the packages of its LockFile (lock.packages.insert,
\* update_dependencies).
SetPackages(h, pkgs) ==
    /\ IsLockFile(h)
    /\ lockFile[h].packages # pkgs
    /\ lockFile' = [lockFile EXCEPT ![h].packages = pkgs]
    /\ lastOp' = [lastOp EXCEPT ![h] = "-"]
    /\ UNCHANGED <<fs, exists, file, flocks, locker, lastWrite>>
    /\ LockFrame

\* LockFile::write through a file opened for writing.
Write(h) ==
    /\ IsLockFile(h)
    /\ locker[h].access = "Exclusive"
    /\ LET w == LockFileWrite(file, locker[h].cursor, lockFile[h]) IN
       /\ file' = w.file
       /\ locker' = [locker EXCEPT ![h].cursor = w.cursor]
       /\ lastWrite' = [written |-> TRUE, packages |-> lockFile[h].packages,
                        shrunk |-> lastWrite.shrunk \/
                            (lastWrite.written /\
                             Len(Preamble \o TomlToString(lockFile[h])) < Len(file))]
    /\ UNCHANGED <<fs, exists, flocks, lockFile, lastOp>>
    /\ LockFrame

\* The Locker API: open_rw, open_ro, try_open_rw, try_open_ro, drop.
LockNext ==
    \/ \E h \in Handle, access \in {"Shared", "Exclusive"} : Open(h, access, "open", {})
    \/ \E h \in Handle : Granted(h)
    \/ \E h \in Handle, access \in {"Shared", "Exclusive"} : TryOpen(h, access)
    \/ \E h \in Handle : Drop(h)

\* The LockFile API: new_with_path, load_from_path, write, drop, and the
\* caller's changes of the packages.
LockFileNext ==
    \/ \E h \in Handle, pkgs \in SUBSET PackagePool : Open(h, "Exclusive", "new", pkgs)
    \/ \E h \in Handle, access \in {"Shared", "Exclusive"} : Open(h, access, "load", {})
    \/ \E h \in Handle : Granted(h)
    \/ \E h \in Handle : Drop(h)
    \/ \E h \in Handle, pkgs \in SUBSET PackagePool : SetPackages(h, pkgs)
    \/ \E h \in Handle : Write(h)

\* The task awaiting open_rw or open_ro is dropped while the lock is
\* pending: the JoinHandle of spawn_blocking goes, the blocking thread stays
\* in sys::lock_* with the Locker it was given.
Cancel(h) ==
    /\ locker[h].st = "waiting"
    /\ locker' = [locker EXCEPT ![h].st = "cancelled"]
    /\ lockFile' = [lockFile EXCEPT ![h] = NoLockFile]
    /\ lastOp' = [lastOp EXCEPT ![h] = "cancelled"]
    /\ UNCHANGED <<fs, exists, file, flocks, lastWrite>>
    /\ LockFrame

\* The blocking flock of a cancelled open returns in its thread.
GrantedDetached(h) ==
    /\ locker[h].st = "cancelled"
    /\ Grantable(h, locker[h].access)
    /\ flocks' = [flocks EXCEPT ![h] = HeldLock("ok", locker[h].access)]
    /\ locker' = [locker EXCEPT ![h].st = "detached"]
    /\ UNCHANGED <<fs, exists, file, lockFile, lastOp, lastWrite>>
    /\ LockFrame

\* The output of the detached thread, the Locker, is dropped: impl Drop for
\* Locker unlocks and the file is closed.
DropDetached(h) ==
    /\ locker[h].st = "detached"
    /\ locker' = [locker EXCEPT ![h] = ClosedLocker]
    /\ flocks' = Unlock(flocks, h)
    /\ UNCHANGED <<fs, exists, file, lockFile, lastOp, lastWrite>>
    /\ LockFrame

\* The Locker API with callers that give up a pending open.
LockCancelNext ==
    \/ \E h \in Handle, access \in {"Shared", "Exclusive"} : Open(h, access, "open", {})
    \/ \E h \in Handle : Granted(h)
    \/ \E h \in Handle, access \in {"Shared", "Exclusive"} : TryOpen(h, access)
    \/ \E h \in Handle : Drop(h)
    \/ \E h \in Handle : Cancel(h)
    \/ \E h \in Handle : GrantedDetached(h)
    \/ \E h \in Handle : DropDetached(h)

(***************************************************************************)
(* The dependency resolver over a caching client.                          *)
(***************************************************************************)
\* Dependency names and package names (PackageRef).
Name == 1..MaxNames

\* The versions a registry may list.
VersionPool == {Ver(1, m, 0) : m \in 0..MaxMinor}

\* impl Ord for semver::Version, without pre-release and build parts.
VersionLess(a, b) ==
    \/ a.major < b.major
    \/ a.major = b.major /\ a.minor < b.minor
    \/ a.major = b.major /\ a.minor = b.minor /\ a.patch < b.patch

\* VersionReq::matches for one comparator with major, minor and patch.
Matches(req, v) ==
    IF req.op = "=" THEN
        v.major = req.major /\ v.minor = req.minor /\ v.patch = req.patch
    ELSE IF req.op = "^" THEN
        /\ v.major = req.major
        /\ IF req.major > 0
           THEN v.minor > req.minor \/ (v.minor = req.minor /\ v.patch >= req.patch)
           ELSE IF req.minor > 0
           THEN v.minor = req.minor /\ v.patch >= req.patch
           ELSE v.minor = req.minor /\ v.patch = req.patch
    ELSE FALSE

VersionInfo(v, y) == [version |-> v, yanked |-> y]

NoVersionInfo == [some |-> FALSE, info |-> VersionInfo(NoVer, FALSE)]

\* A variant of find_latest_release that does not look at `yanked`.
RECURSIVE FindLatestReleaseYanked(_, _, _)
FindLatestReleaseYanked(versions, req, best) ==
    IF versions = <<>> THEN best
    ELSE LET info == Head(versions)
             keep == Matches(req, info.version)
             next == IF keep /\ (~best.some \/ ~VersionLess(info.version, best.info.version))
                     THEN [some |-> TRUE, info |-> info]
                     ELSE best
         IN FindLatestReleaseYanked(Tail(versions), req, next)

\* find_latest_release: filter(!yanked && req.matches).max_by(version), as
\* the fold max_by runs: a later element replaces the best unless it is less.
RECURSIVE FindLatestRelease(_, _, _)
FindLatestRelease(versions, req, best) ==
    IF versions = <<>> THEN best
    ELSE LET info == Head(versions)
             keep == ~info.yanked /\ Matches(req, info.version)
             next == IF keep /\ (~best.some \/ ~VersionLess(info.version, best.info.version))
                     THEN [some |-> TRUE, info |-> info]
                     ELSE best
         IN FindLatestRelease(Tail(versions), req, next)

\* The comparator resolve() builds from a locked version.
ExactReq(v) == Req("=", v.major, v.minor, v.patch)

NoLocked == [some |-> FALSE, version |-> NoVer, digest |-> 0]

\* LockFile::resolve: the package with that name and registry, then the
\* first of its versions locked for an equal requirement.
LockFileResolve(locked_packages, registry, package, requirement) ==
    LET key == LockedPackage(package, registry, <<>>)
        found == {p \in locked_packages : SameKey(p, key)}
    IN IF found = {} THEN NoLocked
       ELSE LET pkg == CHOOSE p \in found : TRUE
                hits == SelectSeq(pkg.versions, LAMBDA l : l.requirement = requirement)
            IN IF hits = <<>> THEN NoLocked
               ELSE [some |-> TRUE, version |-> Head(hits).version,
                     digest |-> Head(hits).digest]

\* Content digests of releases.
Digest == 1..MaxDigest

\* RegistryPackage of a Dependency::Package: name 0 is None.
RegistryPackage(n, req, reg) == [name |-> n, version |-> req, registry |-> reg]

RegistryDependency(p, req, locked) ==
    [some |-> TRUE, package |-> p, version |-> req, locked |-> locked]

NoDependency == [some |-> FALSE, package |-> 0, version |-> NoReq, locked |-> NoLocked]

\* DependencyResolution::Registry; path 0 is "not a local resolution".
RegistryResolution(n, p, reg, req, v, dg) ==
    [some |-> TRUE, name |-> n, package |-> p, registry |-> reg,
     requirement |-> req, version |-> v, digest |-> dg, path |-> 0]

NoResolution ==
    [some |-> FALSE, name |-> 0, package |-> 0, registry |-> NoRegistry,
     requirement |-> NoReq, version |-> NoVer, digest |-> 0, path |-> 0]

\* DependencyResolution::Local(LocalResolution { name, path }).
LocalResolution(n, path) ==
    [NoResolution EXCEPT !.some = TRUE, !.name = n, !.path = path]

IsLocal(resolution) == resolution.some /\ resolution.path # 0

Release(p, v, dg) == [package |-> p, version |-> v, digest |-> dg]

\* The errors of resolve(); a digest mismatch names both digests.
ResolveError(kind, p, v, expected, actual) ==
    [kind |-> kind, package |-> p, version |-> v, expected |-> expected, actual |-> actual]

NoError == ResolveError("none", 0, NoVer, 0, 0)

\* config().resolve_registry(name): the registry the configuration maps
\* the package to, here registry 1 for package 1 and none for the others.
ResolveRegistry(n) == IF n = 1 THEN 1 ELSE NoRegistry

\* The version lists a registry may answer with: every version of the pool
\* absent, listed or yanked, in ascending order, and the lists of the whole
\* pool in descending order too.
RECURSIVE ListFrom(_, _)
ListFrom(f, m) ==
    IF m > MaxMinor THEN <<>>
    ELSE (IF f[m] = "absent" THEN <<>>
          ELSE <<VersionInfo(Ver(1, m, 0), f[m] = "yanked")>>) \o ListFrom(f, m + 1)

Reverse(s) == [i \in 1..Len(s) |-> s[Len(s) + 1 - i]]

VersionLists ==
    LET asc == {ListFrom(f, 0) : f \in [0..MaxMinor -> {"absent", "listed", "yanked"}]}
    IN asc \cup {Reverse(l) : l \in {a \in asc : Len(a) = MaxMinor + 1}}

\* What list_all_versions answers.
ListAnswer(kind, versions) == [kind |-> kind, versions |-> versions]

ListAnswers ==
    {ListAnswer("Ok", l) : l \in VersionLists}
        \cup {ListAnswer("PackageNotFound", <<>>), ListAnswer("Err", <<>>)}

\* What Client::get_release answers: a digest, or 0 for an error.
ReleaseAnswers == Digest \cup {0}

NoVersions == [some |-> FALSE, versions |-> <<>>]

NoSelection == [some |-> FALSE, version |-> NoVer, check |-> FALSE, digest |-> 0]

\* A variant of the selection that does not fall back from the locked version.
SelectVersionNoFallback(versions, dep) ==
    IF dep.locked.some
    THEN LET exact == FindLatestRelease(versions, ExactReq(dep.locked.version), NoVersionInfo)
         IN IF exact.some
            THEN [some |-> TRUE, version |-> exact.info.version, check |-> TRUE,
                  digest |-> dep.locked.digest]
            ELSE NoSelection
    ELSE LET latest == FindLatestRelease(versions, dep.version, NoVersionInfo)
         IN [some |-> latest.some, version |-> latest.info.version, check |-> FALSE,
             digest |-> 0]

\* The `match &dependency.locked` of resolve(): the locked version if it is
\* listed and not yanked, with its digest to compare; otherwise the latest
\* release for the requirement, with no digest to compare.
SelectVersion(versions, dep) ==
    LET latest == FindLatestRelease(versions, dep.version, NoVersionInfo)
        fallback == [some |-> latest.some, version |-> latest.info.version,
                     check |-> FALSE, digest |-> 0]
    IN IF dep.locked.some
       THEN LET exact == FindLatestRelease(versions, ExactReq(dep.locked.version),
                                           NoVersionInfo)
            IN IF exact.some
               THEN [some |-> TRUE, version |-> exact.info.version, check |-> TRUE,
                     digest |-> dep.locked.digest]
               ELSE fallback
       ELSE fallback

\* A variant of get_release that answers for a missing release offline.
CachingGetReleaseOfflineGuess(ca, on, p, v, answer) ==
    LET hit == {r \in ca : r.package = p /\ r.version = v}
    IN IF hit # {}
       THEN [error |-> NoError, release |-> CHOOSE r \in hit : TRUE, cache |-> ca]
       ELSE [error |-> NoError, release |-> Release(p, v, 1), cache |-> ca]

\* CachingClient::get_release: the cache first; on a miss the inner client,
\* which is absent offline, and put_release of what it answered.
CachingGetRelease(ca, on, p, v, answer) ==
    LET hit == {r \in ca : r.package = p /\ r.version = v}
    IN IF hit # {}
       THEN [error |-> NoError, release |-> CHOOSE r \in hit : TRUE, cache |-> ca]
       ELSE IF ~on
       THEN [error |-> ResolveError("read_only", p, v, 0, 0),
             release |-> Release(p, v, 0), cache |-> ca]
       ELSE IF answer = 0
       THEN [error |-> ResolveError("network", p, v, 0, 0),
             release |-> Release(p, v, 0), cache |-> ca]
       ELSE [error |-> NoError, release |-> Release(p, v, answer),
             cache |-> ca \cup {Release(p, v, answer)}]

\* A variant of the digest comparison that accepts every release.
DigestMismatchNever(sel, release) == FALSE

\* `if let Some(digest) = digest { if &release.content_digest != digest`.
DigestMismatch(sel, release) == sel.check /\ release.digest # sel.digest

\* The outcome of one iteration of the loop of resolve(): the version list
\* cache, the release cache, the error or the resolution.
Outcome(pk, ca, err, res) == [packages |-> pk, cache |-> ca, error |-> err, resolution |-> res]

\* From get_release on: the release, the digest comparison, the resolution.
FetchRelease(n, dep, sel, pk, ca, on, releaseAnswer) ==
    LET got == CachingGetRelease(ca, on, dep.package, sel.version, releaseAnswer)
    IN IF got.error # NoError
       THEN Outcome(pk, got.cache, got.error, NoResolution)
       ELSE IF DigestMismatch(sel, got.release)
       THEN Outcome(pk, got.cache,
                    ResolveError("digest_mismatch", dep.package, got.release.version,
                                 sel.digest, got.release.digest),
                    NoResolution)
       ELSE Outcome(pk, got.cache, NoError,
                    RegistryResolution(n, dep.package,
                                       IF on THEN ResolveRegistry(n) ELSE NoRegistry,
                                       dep.version, got.release.version,
                                       got.release.digest))

\* One iteration of the loop of resolve() for the dependency `dep` named n.
ResolveDependency(n, dep, pk, ca, on, listAnswer, releaseAnswer) ==
    IF ~on
    THEN IF ~dep.locked.some
         THEN Outcome(pk, ca, ResolveError("offline_unlocked", dep.package, NoVer, 0, 0),
                      NoResolution)
         ELSE FetchRelease(n, dep,
                           [some |-> TRUE, version |-> dep.locked.version,
                            check |-> TRUE, digest |-> dep.locked.digest],
                           pk, ca, on, releaseAnswer)
    ELSE \* load_package: the cached list, or list_all_versions
         IF ~pk[dep.package].some /\ listAnswer.kind # "Ok"
         THEN Outcome(pk, ca,
                      ResolveError(IF listAnswer.kind = "PackageNotFound"
                                   THEN "not_found" ELSE "network",
                                   dep.package, NoVer, 0, 0),
                      NoResolution)
         ELSE LET pk2 == IF pk[dep.package].some THEN pk
                         ELSE [pk EXCEPT ![dep.package] =
                                  [some |-> TRUE, versions |-> listAnswer.versions]]
                  sel == SelectVersion(pk2[dep.package].versions, dep)
              IN IF ~sel.some
                 THEN Outcome(pk2, ca,
                              ResolveError("no_match", dep.package, NoVer, 0, 0),
                              NoResolution)
                 ELSE FetchRelease(n, dep, sel, pk2, ca, on, releaseAnswer)

\* The lock files and the caches a resolver may be created over.
LockChoices ==
    {{}} \cup
    {{LockedPackage(1, reg,
          <<LockedPackageVersion(Req("^", 1, 0, 0), Ver(1, 1, 0), 1)>>)} :
        reg \in {NoRegistry, ResolveRegistry(1)}}

CacheChoices == {{}} \cup {{Release(1, Ver(1, 1, 0), dg)} : dg \in Digest}

\* The requirements of the dependencies added.
ReqPool == {Req("^", 1, 0, 0), Req("^", 1, MaxMinor, 0)}

DependencyPool ==
    {RegistryPackage(0, req, reg) : req \in ReqPool, reg \in {NoRegistry, ResolveRegistry(1)}}

ResolverFrame == UNCHANGED <<streamVars, lockVars, clientVars, configVars, cacheVars, localVars, relockVars, addsVars, digestVars, tagsVars, metaVars, authVars, decodeVars, fetchVars>>

\* DependencyResolver::new_with_client over a lock file and a cache.
ResolverInit ==
    /\ online \in BOOLEAN
    /\ rlock \in LockChoices
    /\ cache \in CacheChoices
    /\ dependencies = [n \in Name |-> NoDependency]
    /\ resolutions = [n \in Name |-> NoResolution]
    /\ packages = [n \in Name |-> NoVersions]
    /\ iter = [started |-> FALSE, rest |-> {}]
    /\ result = [kind |-> "Pending", error |-> NoError]

ResolverIdle ==
    /\ online = FALSE
    /\ rlock = {}
    /\ cache = {}
    /\ dependencies = [n \in Name |-> NoDependency]
    /\ resolutions = [n \in Name |-> NoResolution]
    /\ packages = [n \in Name |-> NoVersions]
    /\ iter = [started |-> FALSE, rest |-> {}]
    /\ result = [kind |-> "Pending", error |-> NoError]

\* add_dependency_internal that inserts whatever is there already.
AddPackageAlways(deps, res, n, package, force_override) ==
    [deps EXCEPT ![n] =
        RegistryDependency(IF package.name = 0 THEN n ELSE package.name, package.version,
            LockFileResolve(rlock,
                IF package.registry # NoRegistry THEN package.registry
                ELSE IF online THEN ResolveRegistry(n) ELSE NoRegistry,
                IF package.name = 0 THEN n ELSE package.name, package.version))]

\* add_dependency_internal, arm Dependency::Package, on the maps of the
\* resolver: the lock file is asked under the registry the dependency names,
\* else the configured one; the value is the new self.dependencies.
AddPackage(deps, res, n, package, force_override) ==
    LET registry_name == IF package.registry # NoRegistry THEN package.registry
                         ELSE IF online THEN ResolveRegistry(n) ELSE NoRegistry
        package_name == IF package.name = 0 THEN n ELSE package.name
        locked == LockFileResolve(rlock, registry_name, package_name, package.version)
    IN IF ~force_override /\ (res[n].some \/ deps[n].some)
       THEN deps
       ELSE [deps EXCEPT ![n] = RegistryDependency(package_name, package.version, locked)]

\* add_dependency_internal of a Dependency::Package.
AddDependencyInternal(n, package, force_override) ==
    dependencies' = AddPackage(dependencies, resolutions, n, package, force_override)

\* add_dependency (force_override = FALSE) and override_dependency (TRUE)
\* of a Dependency::Package.
AddDependency(n, package, force_override) ==
    /\ ~iter.started
    /\ AddDependencyInternal(n, package, force_override)
    /\ UNCHANGED <<online, rlock, cache, resolutions, packages, iter, result>>
    /\ ResolverFrame

\* resolve(): self.dependencies.into_iter().
ResolveStart ==
    /\ ~iter.started
    /\ iter' = [started |-> TRUE, rest |-> {n \in Name : dependencies[n].some}]
    /\ UNCHANGED <<online, rlock, cache, dependencies, resolutions, packages, result>>
    /\ ResolverFrame

\* One iteration of the loop of resolve(), for the next name the HashMap
\* iterator yields.
ResolveStep(n, listAnswer, releaseAnswer) ==
    /\ iter.started
    /\ result.kind = "Pending"
    /\ n \in iter.rest
    /\ LET out == ResolveDependency(n, dependencies[n], packages, cache, online,
                                    listAnswer, releaseAnswer)
       IN /\ packages' = out.packages
          /\ cache' = out.cache
          /\ iter' = [iter EXCEPT !.rest = @ \ {n}]
          /\ IF out.error # NoError
             THEN /\ result' = [kind |-> "Err", error |-> out.error]
                  /\ UNCHANGED resolutions
             ELSE /\ resolutions' = [resolutions EXCEPT ![n] = out.resolution]
                  /\ UNCHANGED result
    /\ UNCHANGED <<online, rlock, dependencies>>
    /\ ResolverFrame

\* resolve(): Ok(resolutions) once the iterator is exhausted.
ResolveReturn ==
    /\ iter.started
    /\ result.kind = "Pending"
    /\ iter.rest = {}
    /\ result' = [kind |-> "Ok", error |-> NoError]
    /\ UNCHANGED <<online, rlock, cache, dependencies, resolutions, packages, iter>>
    /\ ResolverFrame

ResolverNext ==
    \/ \E n \in Name, package \in DependencyPool, force_override \in BOOLEAN :
          AddDependency(n, package, force_override)
    \/ ResolveStart
    \/ \E n \in Name, listAnswer \in ListAnswers, releaseAnswer \in ReleaseAnswers :
          ResolveStep(n, listAnswer, releaseAnswer)
    \/ ResolveReturn

(***************************************************************************)
(* The client's registry-to-driver map.                                    *)
(***************************************************************************)
Task == 1..MaxTasks

Registry == 1..MaxRegistries

\* Arc<InnerClient>: each call constructs at most one backend, a driver of
\* its own, numbered by the task that made the call.
Driver(id, backend) == [id |-> id, backend |-> backend]

NoDriver == Driver(0, "none")

\* A RegistryConfig: its default backend ("none" is None) and the backend
\* types it holds a configuration for.
RegistryConfig(default_backend, backend_configs) ==
    [default_backend |-> default_backend, backend_configs |-> backend_configs]

\* The configurations of a client: the first registry has the default
\* RegistryConfig, the others are configured alike.
RegistryConfigs ==
    {[registry \in Registry |->
         IF registry = 1 THEN RegistryConfig("none", {}) ELSE c] :
       c \in {RegistryConfig("oci", {}), RegistryConfig("local", {"local"}),
              RegistryConfig("local", {}), RegistryConfig("none", {"warg"}),
              RegistryConfig("none", {"local"}),
              RegistryConfig("none", {"oci", "warg"}),
              RegistryConfig("warg", {"oci"})}}

\* default_backend() that knows the explicit default only.
DefaultBackendExplicit(registry_config) == registry_config.default_backend

\* RegistryConfig::default_backend: the explicit default, else the type of
\* the only backend configured.
DefaultBackend(registry_config) ==
    IF registry_config.default_backend # "none" THEN registry_config.default_backend
    ELSE IF Cardinality(registry_config.backend_configs) = 1
    THEN CHOOSE ty \in registry_config.backend_configs : TRUE
    ELSE "none"

\* registry_meta.preferred_protocol(), as found or fetched.
Protocols == {"none", "oci", "warg", "local", "bogus"}

\* A backend type that follows the metadata also to the local backend.
BackendTypeFromMetadata(backend, protocol) ==
    LET backend_type == IF backend # "none" THEN backend
                        ELSE IF protocol = "none" THEN "oci"
                        ELSE protocol
    IN IF backend_type \in {"local", "oci", "warg", "InvalidRegistryMetadata"}
       THEN backend_type
       ELSE "InvalidConfig"

\* The backend type: the configured one, else the protocol of the
\* metadata, which must not be "local", else "oci"; an unknown type is an
\* error.
BackendType(backend, protocol) ==
    LET backend_type == IF backend # "none" THEN backend
                        ELSE IF protocol = "local" THEN "InvalidRegistryMetadata"
                        ELSE IF protocol = "none" THEN "oci"
                        ELSE protocol
    IN IF backend_type \in {"local", "oci", "warg", "InvalidRegistryMetadata"}
       THEN backend_type
       ELSE "InvalidConfig"

\* A map that keeps the entries already under the key.
HashMapInsertKeepBoth(map, registry, driver) ==
    map \cup {[registry |-> registry, driver |-> driver]}

\* HashMap::insert: the value under the key is replaced.
HashMapInsert(map, registry, driver) ==
    {e \in map : e.registry # registry} \cup {[registry |-> registry, driver |-> driver]}

HashMapGet(map, registry) == {e.driver : e \in {x \in map : x.registry = registry}}

IdleTask ==
    [pc |-> "idle", package |-> 0, is_override |-> FALSE, registry |-> NoRegistry,
     protocol |-> "", built |-> NoDriver, ret |-> NoDriver, err |-> "none"]

\* The mapping of the one package the configuration maps to a registry
\* (ResolveRegistry): a RegistryMapping::Custom names the preferred protocol
\* of its inline metadata, at the level of the package or of its namespace;
\* a RegistryMapping::Registry has no metadata.
NoMapping == [level |-> "none", protocol |-> "none"]

RegistryMappings ==
    {NoMapping} \cup [level : {"package", "namespace"}, protocol : {"oci", "warg"}]

\* maybe_metadata: the metadata of the package override, else that of the
\* namespace mapping, which an overridden call takes only for the registry
\* the mapping names.
MaybeMetadata(package, registry, is_override) ==
    LET mapping == IF ResolveRegistry(package) = NoRegistry THEN NoMapping
                   ELSE registry_mapping
    IN IF mapping.level = "package" THEN mapping.protocol
       ELSE IF /\ mapping.level = "namespace"
               /\ (is_override => ResolveRegistry(package) = registry)
       THEN mapping.protocol
       ELSE "absent"

\* registry_meta: the inline metadata, else the fetched metadata, else the
\* default metadata when the default backend is local.
RegistryMeta(package, registry, is_override) ==
    LET maybe_metadata == MaybeMetadata(package, registry, is_override)
    IN IF maybe_metadata # "absent" THEN maybe_metadata
       ELSE IF DefaultBackend(registry_configs[registry]) # "local"
       THEN fetched[registry]
       ELSE "none"

ClientFrame == UNCHANGED <<streamVars, lockVars, resolverVars, configVars, cacheVars, localVars, relockVars, addsVars, digestVars, tagsVars, metaVars, authVars, decodeVars, fetchVars>>

\* Client::new(config): no sources.
ClientInit ==
    /\ sources = {}
    /\ task = [t \in Task |-> IdleTask]
    /\ registry_configs \in RegistryConfigs
    /\ registry_mapping \in RegistryMappings
    /\ \E protocol \in Protocols : fetched = [registry \in Registry |-> protocol]

ClientIdle ==
    /\ sources = {}
    /\ task = [t \in Task |-> IdleTask]
    /\ registry_configs = [registry \in Registry |-> RegistryConfig("none", {})]
    /\ registry_mapping = NoMapping
    /\ fetched = [registry \in Registry |-> "none"]

\* resolve_source is called: the registry is the override or the one the
\* configuration resolves the package to.
Call(t, package, registry_override) ==
    /\ task[t].pc = "idle"
    /\ LET registry == IF registry_override # NoRegistry THEN registry_override
                       ELSE ResolveRegistry(package)
       IN task' = [task EXCEPT ![t] =
              IF registry = NoRegistry
              THEN [IdleTask EXCEPT !.pc = "done", !.err = "NoRegistryForNamespace"]
              ELSE [IdleTask EXCEPT !.pc = "check", !.package = package,
                                    !.is_override = registry_override # NoRegistry,
                                    !.registry = registry]]
    /\ UNCHANGED <<sources, registry_configs, registry_mapping, fetched>>
    /\ ClientFrame

\* has_key: contains_key under the read lock.
CheckKey(t) ==
    /\ task[t].pc = "check"
    /\ task' = [task EXCEPT ![t].pc =
           IF HashMapGet(sources, task[t].registry) # {} THEN "get" ELSE "build"]
    /\ UNCHANGED <<sources, registry_configs, registry_mapping, fetched>>
    /\ ClientFrame

\* The metadata, the backend type and the construction of the backend;
\* LocalBackend::new needs the configuration of the local backend.
Build(t, protocol) ==
    /\ task[t].pc = "build"
    /\ LET registry_config == registry_configs[task[t].registry]
           backend_type == BackendType(DefaultBackend(registry_config), protocol)
       IN IF backend_type \in {"InvalidRegistryMetadata", "InvalidConfig"}
          THEN task' = [task EXCEPT ![t].pc = "done", ![t].protocol = protocol,
                                    ![t].err = backend_type]
          ELSE IF backend_type = "local" /\ "local" \notin registry_config.backend_configs
          THEN task' = [task EXCEPT ![t].pc = "done", ![t].protocol = protocol,
                                    ![t].err = "InvalidConfig"]
          ELSE task' = [task EXCEPT ![t].pc = "insert", ![t].protocol = protocol,
                                    ![t].built = Driver(t, backend_type)]
    /\ UNCHANGED <<sources, registry_configs, registry_mapping, fetched>>
    /\ ClientFrame

\* self.sources.write().await.insert(registry, Arc::new(source)).
Insert(t) ==
    /\ task[t].pc = "insert"
    /\ sources' = HashMapInsert(sources, task[t].registry, task[t].built)
    /\ task' = [task EXCEPT ![t].pc = "get"]
    /\ UNCHANGED <<registry_configs, registry_mapping, fetched>>
    /\ ClientFrame

\* Ok(self.sources.read().await.get(&registry).unwrap().clone()).
Get(t) ==
    /\ task[t].pc = "get"
    /\ \E driver \in HashMapGet(sources, task[t].registry) :
          task' = [task EXCEPT ![t].pc = "done", ![t].ret = driver]
    /\ UNCHANGED <<sources, registry_configs, registry_mapping, fetched>>
    /\ ClientFrame

ClientNext ==
    \/ \E t \in Task, package \in Name, registry_override \in {NoRegistry} \cup Registry :
          Call(t, package, registry_override)
    \/ \E t \in Task : CheckKey(t)
    \/ \E t \in Task :
          Build(t, RegistryMeta(task[t].package, task[t].registry, task[t].is_override))
    \/ \E t \in Task : Insert(t)
    \/ \E t \in Task : Get(t)

(***************************************************************************)
(* Config: which registry a package is fetched from.  A package of the     *)
(* model is a number; the packages 1..MaxLabels are one per namespace and  *)
(* the last package shares the namespace of the one before it, so that an  *)
(* exact package override and a namespace entry can disagree.  A map is a  *)
(* function to NoRegistry (no entry) or a registry.                        *)
(***************************************************************************)
Label == 1..MaxLabels

PackageRef == 1..(MaxLabels + 1)

Namespace(package) == IF package > MaxLabels THEN MaxLabels ELSE package

OptionRegistry == {NoRegistry} \cup Registry

Config ==
    [default_registry : OptionRegistry,
     namespace_registries : [Label -> OptionRegistry],
     package_registry_overrides : [PackageRef -> OptionRegistry],
     fallback_namespace_registries : [Label -> OptionRegistry]]

\* Config::resolve_registry with the default registry consulted first.
ConfigResolveRegistryDefaultFirst(cfg, package) ==
    IF cfg.default_registry # NoRegistry
        THEN cfg.default_registry
    ELSE IF cfg.package_registry_overrides[package] # NoRegistry
        THEN cfg.package_registry_overrides[package]
    ELSE IF cfg.namespace_registries[Namespace(package)] # NoRegistry
        THEN cfg.namespace_registries[Namespace(package)]
    ELSE IF cfg.fallback_namespace_registries[Namespace(package)] # NoRegistry
        THEN cfg.fallback_namespace_registries[Namespace(package)]
    ELSE NoRegistry

\* Config::resolve_registry: NoRegistry is None.
ConfigResolveRegistry(cfg, package) ==
    IF cfg.package_registry_overrides[package] # NoRegistry
        THEN cfg.package_registry_overrides[package]
    ELSE IF cfg.namespace_registries[Namespace(package)] # NoRegistry
        THEN cfg.namespace_registries[Namespace(package)]
    ELSE IF cfg.default_registry # NoRegistry
        THEN cfg.default_registry
    ELSE IF cfg.fallback_namespace_registries[Namespace(package)] # NoRegistry
        THEN cfg.fallback_namespace_registries[Namespace(package)]
    ELSE NoRegistry

\* The head of Client::resolve_source: the registry the driver is looked up
\* under, or the error of a package no registry is configured for.
SourceRegistry(cfg, package, registry_override) ==
    IF registry_override # NoRegistry
        THEN [err |-> "", registry |-> registry_override]
    ELSE IF ConfigResolveRegistry(cfg, package) = NoRegistry
        THEN [err |-> "NoRegistryForNamespace", registry |-> NoRegistry]
    ELSE [err |-> "", registry |-> ConfigResolveRegistry(cfg, package)]

NoLookup == [package |-> 0, registry_override |-> NoRegistry, resolved |-> NoRegistry,
             err |-> "", registry |-> NoRegistry]

ConfigFrame == UNCHANGED <<streamVars, lockVars, resolverVars, clientVars, cacheVars, localVars, relockVars, addsVars, digestVars, tagsVars, metaVars, authVars, decodeVars, fetchVars>>

ConfigInit ==
    /\ config \in Config
    /\ lookup = NoLookup

ConfigIdle ==
    /\ config = [default_registry |-> NoRegistry,
                 namespace_registries |-> [l \in Label |-> NoRegistry],
                 package_registry_overrides |-> [p \in PackageRef |-> NoRegistry],
                 fallback_namespace_registries |-> [l \in Label |-> NoRegistry]]
    /\ lookup = NoLookup

\* A client operation on a package: Config::resolve_registry is asked for the
\* package and resolve_source picks the registry or fails.
Lookup(package, registry_override) ==
    /\ lookup' = [package |-> package,
                  registry_override |-> registry_override,
                  resolved |-> ConfigResolveRegistry(config, package),
                  err |-> SourceRegistry(config, package, registry_override).err,
                  registry |-> SourceRegistry(config, package, registry_override).registry]
    /\ UNCHANGED config
    /\ ConfigFrame

ConfigNext ==
    \E package \in PackageRef, registry_override \in OptionRegistry :
        Lookup(package, registry_override)

(***************************************************************************)
(* CachingClient over a FileCache.  One release is fetched: its content is *)
(* MaxBlocks blocks, written to and read from the file named by the        *)
(* release's digest one block at a time.  A file is a sequence of blocks;  *)
(* Hole is a block of a file that was never written (the file was          *)
(* truncated under a writer, which then wrote past the end).               *)
(***************************************************************************)
Block == 1..MaxBlocks

Hole == 0

Corrupt == MaxBlocks + 1

\* The content whose digest is release.content_digest.
Content == [i \in Block |-> i]

NoFile == <<-1>>

\* What the stream of Client::stream_content does: the chunks it yields and
\* how it ends.  A transport error ends it after fewer chunks; content with
\* another digest is yielded in full and then ends with InvalidContent.
\* "refused" is stream_content itself failing.
Upstream(chunks, end) == [chunks |-> chunks, end |-> end]

Healthy == Upstream(Content, "ok")

UpstreamPlans ==
    {Healthy, Upstream(<<>>, "refused"),
     Upstream([Content EXCEPT ![1] = Corrupt], "InvalidContent")}
    \cup {Upstream(SubSeq(Content, 1, k), "IoError") : k \in 0..(MaxBlocks - 1)}

\* write(2) of one block at the offset of the writer's descriptor.
WriteAt(f, pos, block) ==
    [i \in 1..(IF pos + 1 > Len(f) THEN pos + 1 ELSE Len(f)) |->
        IF i = pos + 1 THEN block ELSE IF i <= Len(f) THEN f[i] ELSE Hole]

\* CachingClient::client with the read-only check left out.
InnerClientAlways(cl) == ""

\* CachingClient::client: the error of a client in read-only mode.
InnerClient(cl) == IF cl THEN "" ELSE "read only"

\* put_data with the error of the copy swallowed.
CopyResultIgnoreError(end) == [pc |-> "reopen", ret |-> ""]

\* put_data, the end of tokio::io::copy: an error of the stream is returned
\* as a CacheError and get_content returns it (the ? operator).
CopyResult(end) ==
    IF end = "ok" THEN [pc |-> "reopen", ret |-> ""]
    ELSE [pc |-> "done", ret |-> "CacheError"]

IdleCall ==
    [pc |-> "idle", op |-> "", miss |-> FALSE, network |-> FALSE,
     plan |-> Upstream(<<>>, ""), end |-> "", wpos |-> 0, rpos |-> 0,
     got |-> <<>>, ret |-> "", release |-> Release(0, NoVer, 0)]

CacheFrame == UNCHANGED <<streamVars, lockVars, resolverVars, clientVars, configVars, localVars, relockVars, addsVars, digestVars, tagsVars, metaVars, authVars, decodeVars, fetchVars>>

\* CachingClient::new over a cache directory that holds what earlier
\* complete operations put there.
CacheInit ==
    /\ client \in BOOLEAN
    /\ releases \in CacheChoices
    /\ datafile \in {NoFile, Content}
    /\ call = [t \in Task |-> IdleCall]

CacheIdle ==
    /\ client = FALSE
    /\ releases = {}
    /\ datafile = NoFile
    /\ call = [t \in Task |-> IdleCall]

\* CachingClient::list_all_versions.
ListAllVersions(t) ==
    /\ call[t].pc = "idle"
    /\ call' = [call EXCEPT ![t] =
          IF InnerClient(client) # ""
          THEN [@ EXCEPT !.pc = "done", !.op = "list_all_versions",
                         !.ret = InnerClient(client)]
          ELSE [@ EXCEPT !.pc = "done", !.op = "list_all_versions",
                         !.network = TRUE, !.ret = "versions"]]
    /\ UNCHANGED <<client, releases, datafile>>
    /\ CacheFrame

\* CachingClient::get_release of package 1 at version v.
GetRelease(t, v, answer) ==
    /\ call[t].pc = "idle"
    /\ LET r == CachingGetRelease(releases, client, 1, v, answer)
           hit == \E c \in releases : c.package = 1 /\ c.version = v
       IN /\ call' = [call EXCEPT ![t] =
                [@ EXCEPT !.pc = "done", !.op = "get_release", !.miss = ~hit,
                          !.network = ~hit /\ InnerClient(client) = "",
                          !.ret = IF r.error = NoError THEN "release"
                                  ELSE IF r.error.kind = "read_only"
                                  THEN InnerClient(client) ELSE "Error",
                          !.release = r.release]]
          /\ releases' = r.cache
    /\ UNCHANGED <<client, datafile>>
    /\ CacheFrame

\* CachingClient::get_content up to put_data: the cached file is opened if
\* there is one; otherwise the inner client starts the stream.  plan is what
\* the upstream does for this call if it is asked; end keeps how it ends.
GetContent(t, plan) ==
    /\ call[t].pc = "idle"
    /\ call' = [call EXCEPT ![t] =
          IF datafile # NoFile
          THEN [@ EXCEPT !.pc = "reading", !.op = "get_content", !.end = plan.end,
                         !.ret = "stream"]
          ELSE IF InnerClient(client) # ""
          THEN [@ EXCEPT !.pc = "done", !.op = "get_content", !.miss = TRUE,
                         !.end = plan.end, !.ret = InnerClient(client)]
          ELSE IF plan.end = "refused"
          THEN [@ EXCEPT !.pc = "done", !.op = "get_content", !.miss = TRUE,
                         !.network = TRUE, !.end = plan.end, !.ret = "Error"]
          ELSE [@ EXCEPT !.pc = "create", !.op = "get_content", !.miss = TRUE,
                         !.network = TRUE, !.plan = plan, !.end = plan.end]]
    /\ UNCHANGED <<client, releases, datafile>>
    /\ CacheFrame

\* put_data: File::create makes the file or truncates the one there.
Create(t) ==
    /\ call[t].pc = "create"
    /\ datafile' = <<>>
    /\ call' = [call EXCEPT ![t].pc = "copy", ![t].wpos = 0]
    /\ UNCHANGED <<client, releases>>
    /\ CacheFrame

\* put_data: tokio::io::copy moves the next chunk of the stream to the file,
\* or sees the stream end.
Copy(t) ==
    /\ call[t].pc = "copy"
    /\ IF call[t].plan.chunks # <<>>
       THEN /\ datafile' = WriteAt(datafile, call[t].wpos, Head(call[t].plan.chunks))
            /\ call' = [call EXCEPT ![t].wpos = @ + 1,
                                    ![t].plan.chunks = Tail(@)]
       ELSE /\ call' = [call EXCEPT ![t].pc = CopyResult(call[t].plan.end).pc,
                                    ![t].ret = CopyResult(call[t].plan.end).ret]
            /\ UNCHANGED datafile
    /\ UNCHANGED <<client, releases>>
    /\ CacheFrame

\* get_content after put_data: get_data opens the file and the stream over
\* it is returned.
Reopen(t) ==
    /\ call[t].pc = "reopen"
    /\ call' = [call EXCEPT ![t] =
          IF datafile = NoFile
          THEN [@ EXCEPT !.pc = "done", !.ret = "CacheError"]
          ELSE [@ EXCEPT !.pc = "reading", !.ret = "stream", !.rpos = 0]]
    /\ UNCHANGED <<client, releases, datafile>>
    /\ CacheFrame

\* The caller polls the ReaderStream: the block at the descriptor's offset,
\* or the end of the stream at the end of the file.
Read(t) ==
    /\ call[t].pc = "reading"
    /\ call' = [call EXCEPT ![t] =
          IF call[t].rpos < Len(datafile)
          THEN [@ EXCEPT !.got = Append(@, datafile[call[t].rpos + 1]), !.rpos = @ + 1]
          ELSE [@ EXCEPT !.pc = "done"]]
    /\ UNCHANGED <<client, releases, datafile>>
    /\ CacheFrame

CacheStep(t) ==
    \/ ListAllVersions(t)
    \/ \E v \in {Ver(1, 1, 0)}, answer \in ReleaseAnswers : GetRelease(t, v, answer)
    \/ \E plan \in UpstreamPlans : GetContent(t, plan)
    \/ Create(t)
    \/ Copy(t)
    \/ Reopen(t)
    \/ Read(t)

CacheNext == \E t \in Task : CacheStep(t)

\* The calls made one after the other: a call starts and runs while no other
\* call is in progress.
Alone(t) == \A u \in Task \ {t} : call[u].pc \in {"idle", "done"}

CacheRetryNext == \E t \in Task : Alone(t) /\ CacheStep(t)

(***************************************************************************)
(* Client over LocalBackend registries: publish, list_all_versions,        *)
(* get_release and stream_content.  Every registry is a local one with a   *)
(* root of its own; a package directory holds files named by a stem and an *)
(* extension.  The stem of a release file is the formatted version, here   *)
(* the sequence of its three numbers.                                      *)
(***************************************************************************)
FormatVersion(v) == <<v.major, v.minor, v.patch>>

\* Version::parse of a file stem.
VersionParse(stem) ==
    IF Len(stem) = 3
    THEN [ok |-> TRUE, version |-> Ver(stem[1], stem[2], stem[3])]
    ELSE [ok |-> FALSE, version |-> NoVer]

DirFile(stem, ext, bytes) == [stem |-> stem, ext |-> ext, bytes |-> bytes]

\* LocalBackend::version_path: <version>.wasm in the package directory.
VersionFiles(dir, v) == {f \in dir.files : f.stem = FormatVersion(v) /\ f.ext = "wasm"}

NoDir == [exists |-> FALSE, files |-> {}]

\* A directory in use: an older release of 1.0.0, a .wasm file whose name is
\* no version and a file that is no .wasm.
UsedDir ==
    [exists |-> TRUE,
     files |-> {DirFile(<<1, 0, 0>>, "wasm", <<1>>), DirFile(<<1, 0>>, "wasm", <<1>>),
                DirFile(<<1, 1, 0>>, "txt", <<1>>)}]

\* publish that keeps the release file that is already there.
LocalPublishKeepOld(dir, v, bytes) ==
    IF VersionFiles(dir, v) # {} THEN dir
    ELSE [exists |-> TRUE, files |-> dir.files \cup {DirFile(FormatVersion(v), "wasm", bytes)}]

\* LocalBackend::publish: create_dir_all, File::create, copy of the data.
LocalPublish(dir, v, bytes) ==
    [exists |-> TRUE,
     files |-> (dir.files \ VersionFiles(dir, v))
                   \cup {DirFile(FormatVersion(v), "wasm", bytes)}]

\* LocalBackend::list_all_versions; the order of read_dir is not modelled.
LocalListAllVersions(dir) ==
    IF ~dir.exists THEN [err |-> "IoError", versions |-> {}]
    ELSE [err |-> "",
          versions |-> {VersionInfo(VersionParse(f.stem).version, FALSE) :
                            f \in {g \in dir.files :
                                      g.ext = "wasm" /\ VersionParse(g.stem).ok}}]

\* LocalBackend::get_release: the digest of the file as it is now.
LocalGetRelease(dir, v) ==
    IF VersionFiles(dir, v) = {}
    THEN [err |-> "IoError", version |-> v, content_digest |-> BogusDigest]
    ELSE [err |-> "", version |-> v,
          content_digest |-> Sha256Of((CHOOSE f \in VersionFiles(dir, v) : TRUE).bytes)]

\* ReaderStream over a file: chunks of at most MaxChunkLen bytes.
RECURSIVE ReaderStream(_)
ReaderStream(bytes) ==
    IF bytes = <<>> THEN <<>>
    ELSE IF Len(bytes) <= MaxChunkLen THEN <<bytes>>
    ELSE <<SubSeq(bytes, 1, MaxChunkLen)>>
             \o ReaderStream(SubSeq(bytes, MaxChunkLen + 1, Len(bytes)))

\* validating_stream over the chunks: what the scan stream yields.
RECURSIVE ValidatingStream(_, _, _)
ValidatingStream(chunks, h, w) ==
    IF chunks = <<>>
    THEN LET r == ScanClosure(h, ResNone, w)
         IN IF r.yield THEN <<r.item>> ELSE <<>>
    ELSE LET r == ScanClosure(h, ResSome(OkItem(Head(chunks))), w)
         IN <<r.item>> \o ValidatingStream(Tail(chunks), r.hasher, w)

\* try_collect: the bytes of the items, or the first error.
RECURSIVE TryCollect(_, _)
TryCollect(items, acc) ==
    IF items = <<>> THEN [err |-> "", bytes |-> acc]
    ELSE IF Head(items).tag = "Ok" THEN TryCollect(Tail(items), acc \o Head(items).bytes)
    ELSE [err |-> Head(items).tag, bytes |-> <<>>]

\* PackageLoader::stream_content of LocalBackend, collected by the caller.
LocalStreamContent(dir, release) ==
    IF VersionFiles(dir, release.version) = {}
    THEN [err |-> "IoError", bytes |-> <<>>]
    ELSE TryCollect(
            ValidatingStream(
                ReaderStream((CHOOSE f \in VersionFiles(dir, release.version) : TRUE).bytes),
                Sha256New, release.content_digest),
            <<>>)

\* The head of Client::resolve_source for the configuration of this client,
\* in which ResolveRegistry is Config::resolve_registry.
ResolveSource(package, registry_override) ==
    IF registry_override # NoRegistry
        THEN [err |-> "", registry |-> registry_override]
    ELSE IF ResolveRegistry(package) = NoRegistry
        THEN [err |-> "NoRegistryForNamespace", registry |-> NoRegistry]
    ELSE [err |-> "", registry |-> ResolveRegistry(package)]

\* The contents published; the first two have different digests, the last
\* has the digest of the first.
FilePool == {<<0>>, <<0, 1>>, <<1, 0>>}

ReleaseVersions == {Ver(1, 0, 0), Ver(1, 1, 0)}

NoPublish ==
    [ok |-> FALSE, err |-> "", package |-> 0, version |-> NoVer, bytes |-> <<>>,
     registry_override |-> NoRegistry]

NoFetch ==
    [op |-> "", err |-> "", package |-> 0, version |-> NoVer, versions |-> {},
     content_digest |-> BogusDigest, bytes |-> <<>>]

LocalFrame == UNCHANGED <<streamVars, lockVars, resolverVars, clientVars, configVars, cacheVars, relockVars, addsVars, digestVars, tagsVars, metaVars, authVars, decodeVars, fetchVars>>

LocalInit ==
    /\ store \in {[r \in Registry |-> [p \in Name |-> d]] : d \in {NoDir, UsedDir}}
    /\ publishes = 0
    /\ last = NoPublish
    /\ fetch = NoFetch

LocalIdle ==
    /\ store = [r \in Registry |-> [p \in Name |-> NoDir]]
    /\ publishes = 0
    /\ last = NoPublish
    /\ fetch = NoFetch

\* Client::publish_release_data with the package and version given in the
\* options: resolve_source with the registry of the options, then publish.
ClientPublish(package, version, bytes, registry_override) ==
    /\ publishes < MaxPublishes
    /\ publishes' = publishes + 1
    /\ LET src == ResolveSource(package, registry_override) IN
       IF src.err # ""
       THEN /\ last' = [ok |-> FALSE, err |-> src.err, package |-> package,
                        version |-> version, bytes |-> bytes,
                        registry_override |-> registry_override]
            /\ UNCHANGED store
       ELSE /\ last' = [ok |-> TRUE, err |-> "", package |-> package,
                        version |-> version, bytes |-> bytes,
                        registry_override |-> registry_override]
            /\ store' = [store EXCEPT ![src.registry][package] =
                            LocalPublish(@, version, bytes)]
    /\ fetch' = NoFetch
    /\ LocalFrame

\* Client::list_all_versions.
ClientListAllVersions(package) ==
    /\ LET src == ResolveSource(package, NoRegistry) IN
       IF src.err # ""
       THEN fetch' = [NoFetch EXCEPT !.op = "list_all_versions", !.err = src.err,
                                     !.package = package]
       ELSE LET r == LocalListAllVersions(store[src.registry][package]) IN
            fetch' = [NoFetch EXCEPT !.op = "list_all_versions", !.err = r.err,
                                     !.package = package, !.versions = r.versions]
    /\ UNCHANGED <<store, publishes, last>>
    /\ LocalFrame

\* Client::get_release.
ClientGetRelease(package, version) ==
    /\ LET src == ResolveSource(package, NoRegistry) IN
       IF src.err # ""
       THEN fetch' = [NoFetch EXCEPT !.op = "get_release", !.err = src.err,
                                     !.package = package, !.version = version]
       ELSE LET r == LocalGetRelease(store[src.registry][package], version) IN
            fetch' = [NoFetch EXCEPT !.op = "get_release", !.err = r.err,
                                     !.package = package, !.version = r.version,
                                     !.content_digest = r.content_digest]
    /\ UNCHANGED <<store, publishes, last>>
    /\ LocalFrame

\* Client::stream_content of the release get_release just returned, collected
\* with try_collect.
ClientStreamContent ==
    /\ fetch.op = "get_release"
    /\ fetch.err = ""
    /\ LET src == ResolveSource(fetch.package, NoRegistry)
           r == LocalStreamContent(store[src.registry][fetch.package], fetch)
       IN fetch' = [fetch EXCEPT !.op = "stream_content", !.err = r.err,
                                 !.bytes = r.bytes]
    /\ UNCHANGED <<store, publishes, last>>
    /\ LocalFrame

LocalNext ==
    \/ \E package \in Name, version \in ReleaseVersions, bytes \in FilePool,
          registry_override \in OptionRegistry :
          ClientPublish(package, version, bytes, registry_override)
    \/ \E package \in Name : ClientListAllVersions(package)
    \/ \E package \in Name, version \in ReleaseVersions : ClientGetRelease(package, version)
    \/ ClientStreamContent

(***************************************************************************)
(* Resolving twice: a first resolution online without a lock file,         *)
(* LockFile::update_dependencies from its result, and a second resolver    *)
(* over the updated lock file and the same cache.                          *)
(***************************************************************************)
\* VersionReq to_string and parse, as the keys of the versions map.
ReqToString(req) == <<req.op, req.major, req.minor, req.patch>>

ReqParse(s) == Req(s[1], s[2], s[3], s[4])

\* DependencyResolution::key: None for a local resolution.
HasKey(resolution) == resolution.some /\ ~IsLocal(resolution)

\* The PackageKeys generate_locked_packages meets in the map.
ResolutionKeys(map) ==
    {<<map[n].package, map[n].registry>> : n \in {m \in DOMAIN map : HasKey(map[m])}}

\* map.values() yields the resolutions in some order of the HashMap.
Orders == Permutations(Name)

EmptyVersionsMap == [panic |-> FALSE, entries |-> {}]

\* The versions map of one key, requirement string to (version, digest),
\* after the loop took the resolutions in the given order: an insert under
\* a requirement already there replaces the value, and the assertion fails
\* when the value replaced has another version.
RECURSIVE VersionsMap(_, _, _, _)
VersionsMap(map, key, order, acc) ==
    IF order = <<>> THEN acc
    ELSE LET pkg == map[Head(order)]
             prev == {e \in acc.entries : e[1] = ReqToString(pkg.requirement)}
         IN IF HasKey(pkg) /\ <<pkg.package, pkg.registry>> = key
            THEN VersionsMap(map, key, Tail(order),
                     [panic |-> acc.panic \/ \E e \in prev : e[2] # pkg.version,
                      entries |-> (acc.entries \ prev) \cup
                          {<<ReqToString(pkg.requirement), pkg.version, pkg.digest>>}])
            ELSE VersionsMap(map, key, Tail(order), acc)

RECURSIVE IntoVec(_)
IntoVec(versions) ==
    IF versions = {} THEN <<>>
    ELSE LET e == CHOOSE x \in versions : TRUE
         IN <<LockedPackageVersion(ReqParse(e[1]), e[2], e[3])>> \o IntoVec(versions \ {e})

\* generate_locked_packages keeping the local resolutions as packages.
GenerateLockedPackagesWithLocal(map, order) ==
    [panic |-> FALSE,
     packages |-> {LockedPackage(map[n].package, map[n].registry,
                       <<LockedPackageVersion(map[n].requirement, map[n].version,
                                              map[n].digest)>>) :
                      n \in {m \in DOMAIN map : map[m].some}}]

\* generate_locked_packages: one LockedPackage per (package, registry); it
\* panics when an assertion of the loop fails.
GenerateLockedPackages(map, order) ==
    [panic |-> \E key \in ResolutionKeys(map) :
                   VersionsMap(map, key, order, EmptyVersionsMap).panic,
     packages |-> {LockedPackage(key[1], key[2],
                       IntoVec(VersionsMap(map, key, order, EmptyVersionsMap).entries)) :
                      key \in ResolutionKeys(map)}]

\* The manifest resolved twice has one dependency, with this name.
Manifest == {1}

ManifestPool ==
    {RegistryPackage(0, req, reg) : req \in ReqPool, reg \in {NoRegistry} \cup Registry}

NoInput == RegistryPackage(0, NoReq, NoRegistry)

NoPast ==
    [some |-> FALSE, inputs |-> [n \in Name |-> NoInput],
     resolutions |-> [n \in Name |-> NoResolution], packages |-> {}]

RelockFrame == UNCHANGED <<streamVars, lockVars, clientVars, configVars, cacheVars, localVars, addsVars, digestVars, tagsVars, metaVars, authVars, decodeVars, fetchVars>>

RelockIdle ==
    /\ inputs = [n \in Name |-> NoInput]
    /\ past = NoPast

\* A resolver online, with an empty lock file and an empty cache.
RelockInit ==
    /\ online = TRUE
    /\ rlock = {}
    /\ cache = {}
    /\ dependencies = [n \in Name |-> NoDependency]
    /\ resolutions = [n \in Name |-> NoResolution]
    /\ packages = [n \in Name |-> NoVersions]
    /\ iter = [started |-> FALSE, rest |-> {}]
    /\ result = [kind |-> "Pending", error |-> NoError]
    /\ RelockIdle

\* add_dependency of a dependency of the manifest.
ManifestAdd(n, package) ==
    /\ ~iter.started
    /\ AddDependencyInternal(n, package, FALSE)
    /\ inputs' = [inputs EXCEPT ![n] = IF dependencies[n].some THEN @ ELSE package]
    /\ UNCHANGED <<online, rlock, cache, resolutions, packages, iter, result, past>>
    /\ RelockFrame

\* After resolve() returned the map: LockFile::update_dependencies, and a new
\* DependencyResolver over the lock file and the cache.
UpdateDependencies ==
    /\ result.kind = "Ok"
    /\ ~past.some
    /\ \E order \in Orders :
          LET out == GenerateLockedPackages(resolutions, order)
          IN /\ rlock' = IF out.panic THEN {} ELSE out.packages
             /\ result' = [kind |-> IF out.panic THEN "Panic" ELSE "Pending",
                           error |-> NoError]
    /\ past' = [some |-> TRUE, inputs |-> inputs, resolutions |-> resolutions,
                packages |-> rlock]
    /\ inputs' = [n \in Name |-> NoInput]
    /\ dependencies' = [n \in Name |-> NoDependency]
    /\ resolutions' = [n \in Name |-> NoResolution]
    /\ packages' = [n \in Name |-> NoVersions]
    /\ iter' = [started |-> FALSE, rest |-> {}]
    /\ UNCHANGED <<online, cache>>
    /\ RelockFrame

RelockNext ==
    \/ \E n \in Manifest, package \in ManifestPool : ManifestAdd(n, package)
    \/ ResolveStart
    \/ \E n \in Name, listAnswer \in ListAnswers, releaseAnswer \in ReleaseAnswers :
          ResolveStep(n, listAnswer, releaseAnswer)
    \/ ResolveReturn
    \/ UpdateDependencies

(***************************************************************************)
(* DependencyResolver: the calls that add dependencies, registry and local *)
(* (wasm-pkg-core/src/resolver.rs), followed by resolve().                 *)
(***************************************************************************)

\* The calls made on one resolver.
MaxCalls == 3

\* The paths of the local dependencies.
PathPool == {1, 2}

\* What get_packages(path) returns: an error, or the packages the WIT at the
\* path refers to, in the order the HashSet yields them.
GetPackagesErr == <<"Err">>

GetPackagesPool ==
    {GetPackagesErr, <<>>, <<<<2, Req("^", 1, 0, 0)>>>>,
     <<<<1, Req("^", 1, MaxMinor, 0)>>, <<2, Req("^", 1, 0, 0)>>>>}

\* add_packages: add_dependency of each package, by its own name and with
\* no registry.
RECURSIVE AddPackages(_, _, _)
AddPackages(deps, res, pkgs) ==
    IF pkgs = <<>> THEN deps
    ELSE AddPackages(
             AddPackage(deps, res, Head(pkgs)[1],
                        RegistryPackage(Head(pkgs)[1], Head(pkgs)[2], NoRegistry), FALSE),
             res, Tail(pkgs))

\* add_dependency_internal, arm Dependency::Local: the outcome on the maps of
\* the resolver. The assertion fails when a resolution was there already.
LocalOutcome(deps, res, ret) == [dependencies |-> deps, resolutions |-> res, ret |-> ret]

ShouldInsert(deps, res, n, force_override) ==
    force_override \/ deps[n].some \/ ~res[n].some

AddLocal(deps, res, n, path, force_override, pkgs) ==
    LET removed == [deps EXCEPT ![n] = NoDependency]
    IN IF ~ShouldInsert(deps, res, n, force_override) THEN LocalOutcome(deps, res, "Ok")
       ELSE IF pkgs = GetPackagesErr THEN LocalOutcome(removed, res, "Err")
       ELSE LocalOutcome(AddPackages(removed, res, pkgs),
                         [res EXCEPT ![n] = LocalResolution(n, path)],
                         IF res[n].some THEN "Panic" ELSE "Ok")

\* What was asked of the resolver so far: per name the first add_dependency
\* and the last override_dependency of a registry package, whether a local
\* dependency was given for it, and the last call.
NoCall == [name |-> 0, force_override |-> FALSE, local |-> FALSE, ret |-> "Ok"]

NoCalls ==
    [count |-> 0,
     first |-> [n \in Name |-> NoInput],
     override |-> [n \in Name |-> NoInput],
     local |-> [n \in Name |-> FALSE],
     last |-> NoCall]

\* The add_dependency calls add_packages makes, as first adds of their names.
RECURSIVE FirstAdds(_, _)
FirstAdds(first, pkgs) ==
    IF pkgs = <<>> THEN first
    ELSE LET n == Head(pkgs)[1]
         IN FirstAdds([first EXCEPT ![n] =
                          IF @ = NoInput
                          THEN RegistryPackage(n, Head(pkgs)[2], NoRegistry) ELSE @],
                      Tail(pkgs))

AddsFrame == UNCHANGED <<streamVars, lockVars, clientVars, configVars, cacheVars, localVars, relockVars, digestVars, tagsVars, metaVars, authVars, decodeVars, fetchVars>>

AddsIdle == calls = NoCalls

\* A resolver with a lock file, before any call.
AddsInit ==
    /\ online = TRUE
    /\ rlock \in LockChoices
    /\ cache = {}
    /\ dependencies = [n \in Name |-> NoDependency]
    /\ resolutions = [n \in Name |-> NoResolution]
    /\ packages = [n \in Name |-> NoVersions]
    /\ iter = [started |-> FALSE, rest |-> {}]
    /\ result = [kind |-> "Pending", error |-> NoError]
    /\ AddsIdle

CanCall ==
    /\ ~iter.started
    /\ calls.count < MaxCalls
    /\ calls.last.ret # "Panic"

\* add_dependency (force_override = FALSE) or override_dependency (TRUE)
\* with a Dependency::Package.
AddRegistryDependency(n, package, force_override) ==
    /\ CanCall
    /\ AddDependencyInternal(n, package, force_override)
    /\ calls' = [calls EXCEPT
           !.count = @ + 1,
           !.first[n] = IF ~force_override /\ @ = NoInput THEN package ELSE @,
           !.override[n] = IF force_override THEN package ELSE @,
           !.last = [name |-> n, force_override |-> force_override,
                     local |-> FALSE, ret |-> "Ok"]]
    /\ UNCHANGED <<online, rlock, cache, resolutions, packages, iter, result>>
    /\ AddsFrame

\* add_dependency or override_dependency with a Dependency::Local.
AddLocalDependency(n, path, force_override, pkgs) ==
    /\ CanCall
    /\ LET out == AddLocal(dependencies, resolutions, n, path, force_override, pkgs)
           nested == IF pkgs = GetPackagesErr
                        \/ ~ShouldInsert(dependencies, resolutions, n, force_override)
                     THEN <<>> ELSE pkgs
       IN /\ dependencies' = out.dependencies
          /\ resolutions' = out.resolutions
          /\ calls' = [calls EXCEPT
                 !.count = @ + 1,
                 !.first = FirstAdds(@, nested),
                 !.local[n] = TRUE,
                 !.last = [name |-> n, force_override |-> force_override,
                           local |-> TRUE, ret |-> out.ret]]
    /\ UNCHANGED <<online, rlock, cache, packages, iter, result>>
    /\ AddsFrame

\* resolve() on the resolver the calls were made on.
AddsResolveStart ==
    /\ calls.last.ret # "Panic"
    /\ ResolveStart

\* The versions the registry lists while the dependencies added are
\* resolved: both requirements of the pool have a match.
AddsListAnswers ==
    {ListAnswer("Ok", <<VersionInfo(Ver(1, 0, 0), FALSE), VersionInfo(Ver(1, MaxMinor, 0), FALSE)>>)}

AddsNext ==
    \/ \E n \in Name, package \in DependencyPool, force_override \in BOOLEAN :
          AddRegistryDependency(n, package, force_override)
    \/ \E n \in Name, path \in PathPool, force_override \in BOOLEAN,
          pkgs \in GetPackagesPool :
          AddLocalDependency(n, path, force_override, pkgs)
    \/ AddsResolveStart
    \/ \E n \in Name, listAnswer \in AddsListAnswers, releaseAnswer \in {1} :
          ResolveStep(n, listAnswer, releaseAnswer)
    \/ ResolveReturn

(***************************************************************************)
(* LockFile::update_dependencies on the maps resolve() returns             *)
(* (wasm-pkg-core/src/lock.rs).                                            *)
(***************************************************************************)

\* The digest of a release, one per package and version.
ReleaseDigest(package, v) == IF v.minor = 0 THEN 1 ELSE MaxDigest

\* The resolutions resolve() may return for a name: none, a local one, or a
\* registry resolution of some package in the registry some configuration
\* resolves for the name.
ResolutionPool(n) ==
    {NoResolution, LocalResolution(n, 1)} \cup
    {RegistryResolution(n, package, reg, req, v, ReleaseDigest(package, v)) :
        package \in Name, reg \in {NoRegistry, 1}, req \in ReqPool,
        v \in {Ver(1, 0, 0), Ver(1, MaxMinor, 0)}}

\* resolve() has returned a map, and the lock file holds older packages.
UpdateInit ==
    /\ online = TRUE
    /\ rlock \in LockChoices
    /\ cache = {}
    /\ dependencies = [n \in Name |-> NoDependency]
    /\ resolutions \in {map \in [Name -> UNION {ResolutionPool(n) : n \in Name}] :
                           \A n \in Name : map[n] \in ResolutionPool(n)}
    /\ packages = [n \in Name |-> NoVersions]
    /\ iter = [started |-> TRUE, rest |-> {}]
    /\ result = [kind |-> "Ok", error |-> NoError]

(***************************************************************************)
(* ContentDigest: TryFrom<&str> and Display                                *)
(* (wasm-pkg-loader/src/release.rs).                                       *)
(***************************************************************************)

\* The number of hex digits of a digest, 64 in the source.
HexLen == 2

\* The prefix of a digest string, "sha256:" in the source.
DigestPrefix == <<"s", ":">>

\* The characters of the strings parsed: letters of the prefix, hex digits
\* in both cases and a decimal digit, a letter that is no hex digit, and
\* the two characters whose lowercase is something else in ASCII or in
\* length: "K" is the Kelvin sign (lowercase k), "I" is the dotted capital I
\* (lowercase i followed by a combining dot).
Char == {"s", "S", ":", "a", "A", "1", "g", "K", "I"}

MaxStrLen == Len(DigestPrefix) + HexLen + 1

Str == SeqsUpTo(Char, MaxStrLen)

\* char::to_lowercase.
CharToLowercase(c) ==
    CASE c = "S" -> <<"s">>
      [] c = "A" -> <<"a">>
      [] c = "K" -> <<"k">>
      [] c = "I" -> <<"i", ".">>
      [] OTHER -> <<c>>

\* str::to_lowercase.
RECURSIVE ToLowercase(_)
ToLowercase(str) ==
    IF str = <<>> THEN <<>> ELSE CharToLowercase(Head(str)) \o ToLowercase(Tail(str))

\* The length of a character in UTF-8.
LenUtf8(c) ==
    CASE c \in {"K"} -> 3
      [] c \in {"I", "."} -> 2
      [] OTHER -> 1

\* str::len: the length in bytes.
RECURSIVE StrLen(_)
StrLen(str) == IF str = <<>> THEN 0 ELSE LenUtf8(Head(str)) + StrLen(Tail(str))

\* char::is_ascii_hexdigit.
IsAsciiHexdigit(c) == c \in {"a", "A", "1"}

\* str::strip_prefix.
StripPrefix(str, prefix) ==
    IF Len(str) >= Len(prefix) /\ SubSeq(str, 1, Len(prefix)) = prefix
    THEN [some |-> TRUE, rest |-> SubSeq(str, Len(prefix) + 1, Len(str))]
    ELSE [some |-> FALSE, rest |-> <<>>]

InvalidContentDigest == [ok |-> FALSE, hex |-> <<>>]

\* A parser that keeps the case of the digits.
TryFromKeepCase(str) ==
    LET stripped == StripPrefix(str, DigestPrefix)
    IN IF ~stripped.some THEN InvalidContentDigest
       ELSE IF StrLen(stripped.rest) # HexLen THEN InvalidContentDigest
       ELSE IF \E i \in 1..Len(stripped.rest) : ~IsAsciiHexdigit(stripped.rest[i])
       THEN InvalidContentDigest
       ELSE [ok |-> TRUE, hex |-> stripped.rest]

\* impl TryFrom<&str> for ContentDigest.
TryFrom(str) ==
    LET stripped == StripPrefix(str, DigestPrefix)
        hex == ToLowercase(stripped.rest)
    IN IF ~stripped.some THEN InvalidContentDigest
       ELSE IF StrLen(hex) # HexLen THEN InvalidContentDigest
       ELSE IF \E i \in 1..Len(hex) : ~IsAsciiHexdigit(hex[i]) THEN InvalidContentDigest
       ELSE [ok |-> TRUE, hex |-> hex]

\* impl Display for ContentDigest.
Display(digest) == DigestPrefix \o digest.hex

NotParsed == [done |-> FALSE, ok |-> FALSE, hex |-> <<>>, printed |-> <<>>]

DigestFrame == UNCHANGED <<streamVars, lockVars, resolverVars, clientVars, configVars, cacheVars, localVars, relockVars, addsVars, tagsVars, metaVars, authVars, decodeVars, fetchVars>>

DigestInit ==
    /\ digestStr \in Str
    /\ digestParsed = NotParsed

DigestIdle ==
    /\ digestStr = <<>>
    /\ digestParsed = NotParsed

\* s.parse::<ContentDigest>(), and to_string() of the value when there is one.
Parse ==
    /\ ~digestParsed.done
    /\ LET digest == TryFrom(digestStr)
       IN digestParsed' = [done |-> TRUE, ok |-> digest.ok, hex |-> digest.hex,
                           printed |-> IF digest.ok THEN Display(digest) ELSE <<>>]
    /\ UNCHANGED digestStr
    /\ DigestFrame

(***************************************************************************)
(* OciBackend::list_all_versions (wasm-pkg-client/src/oci/loader.rs).  A   *)
(* tag is the sequence of its parts: digits, separators and words.         *)
(***************************************************************************)

\* The tags a list_tags response holds.
MaxTags == 5

DigitValue == [c \in {"0", "1", "2"} |-> IF c = "0" THEN 0 ELSE IF c = "1" THEN 1 ELSE 2]

TagPool ==
    {<<"0", ".", "1", ".", "0">>, <<"0", ".", "2", ".", "0">>,
     <<"sha256", "-", "abc">>, <<"latest">>, <<"not", "-", "a", "-", "version">>,
     <<"1", ".", "0">>, <<"v", "1", ".", "0", ".", "0">>}

\* Version::parse(tag): three numbers separated by dots.
VersionParseTag(tag) ==
    IF /\ Len(tag) = 5
       /\ tag[2] = "." /\ tag[4] = "."
       /\ \A i \in {1, 3, 5} : tag[i] \in DOMAIN DigitValue
    THEN [ok |-> TRUE,
          version |-> Ver(DigitValue[tag[1]], DigitValue[tag[3]], DigitValue[tag[5]])]
    ELSE [ok |-> FALSE, version |-> NoVer]

\* tag.starts_with("sha256-").
StartsWithSha256(tag) == Len(tag) >= 2 /\ tag[1] = "sha256" /\ tag[2] = "-"

Listing(err, versions, log) == [done |-> TRUE, err |-> err, versions |-> versions, log |-> log]

NoListing == [done |-> FALSE, err |-> "", versions |-> <<>>, log |-> <<>>]

\* The flat_map over resp.tags that warns of every tag it drops.
CollectVersionsWarnAll(resp_tags, acc) ==
    Listing("",
        [i \in 1..Len(SelectSeq(resp_tags, LAMBDA t : VersionParseTag(t).ok)) |->
            VersionInfo(VersionParseTag(SelectSeq(resp_tags,
                            LAMBDA t : VersionParseTag(t).ok)[i]).version, FALSE)],
        [i \in 1..Len(SelectSeq(resp_tags, LAMBDA t : ~VersionParseTag(t).ok)) |->
            <<"warn", SelectSeq(resp_tags, LAMBDA t : ~VersionParseTag(t).ok)[i]>>])

\* The flat_map over resp.tags, collected: the versions in the order of
\* the tags, and what is logged on the way.
RECURSIVE CollectVersions(_, _)
CollectVersions(resp_tags, acc) ==
    IF resp_tags = <<>> THEN acc
    ELSE LET tag == Head(resp_tags)
             parsed == VersionParseTag(tag)
         IN CollectVersions(Tail(resp_tags),
                IF parsed.ok
                THEN [acc EXCEPT !.versions = Append(@, VersionInfo(parsed.version, FALSE))]
                ELSE IF StartsWithSha256(tag)
                THEN [acc EXCEPT !.log = Append(@, <<"debug", tag>>)]
                ELSE [acc EXCEPT !.log = Append(@, <<"warn", tag>>)])

\* What the registry answers to list_tags, after the authentication.
TagsResponse(err, resp_tags) == [err |-> err, tags |-> resp_tags]

TagsFrame == UNCHANGED <<streamVars, lockVars, resolverVars, clientVars, configVars, cacheVars, localVars, relockVars, addsVars, digestVars, metaVars, authVars, decodeVars, fetchVars>>

TagsInit ==
    /\ resp \in {TagsResponse("", l) : l \in SeqsUpTo(TagPool, MaxTags)}
                \cup {TagsResponse("auth", <<>>), TagsResponse("registry", <<>>)}
    /\ listing = NoListing

TagsIdle ==
    /\ resp = TagsResponse("", <<>>)
    /\ listing = NoListing

\* OciBackend::list_all_versions.
OciListAllVersions ==
    /\ ~listing.done
    /\ listing' = IF resp.err # "" THEN Listing(resp.err, <<>>, <<>>)
                  ELSE CollectVersions(resp.tags, Listing("", <<>>, <<>>))
    /\ UNCHANGED resp
    /\ TagsFrame

(***************************************************************************)
(* RegistryMetadata::preferred_protocol (wasm-pkg-common/src/metadata.rs). *)
(***************************************************************************)

\* The protocol names of a metadata document; "none" is None.
ProtocolName == {"oci", "warg", "other"}

\* RegistryMetadata: the explicit field, the keys of protocol_configs, and
\* which of the backward-compatibility aliases are set.
RegistryMetadata ==
    [preferred_protocol : ProtocolName \cup {"none"},
     protocol_configs : SUBSET ProtocolName,
     oci_registry : BOOLEAN,
     oci_namespace_prefix : BOOLEAN,
     warg_url : BOOLEAN]

DefaultMetadata ==
    [preferred_protocol |-> "none", protocol_configs |-> {}, oci_registry |-> FALSE,
     oci_namespace_prefix |-> FALSE, warg_url |-> FALSE]

\* RegistryMetadata::preferred_protocol.
PreferredProtocol(meta) ==
    IF meta.preferred_protocol # "none" THEN meta.preferred_protocol
    ELSE IF Cardinality(meta.protocol_configs) = 1
    THEN CHOOSE k \in meta.protocol_configs : TRUE
    ELSE IF meta.protocol_configs = {}
    THEN IF meta.oci_registry /\ ~meta.warg_url THEN "oci"
         ELSE IF ~meta.oci_registry /\ meta.warg_url THEN "warg"
         ELSE "none"
    ELSE "none"

\* RegistryMetadata::configured_protocols.
ConfiguredProtocols(meta) ==
    meta.protocol_configs
        \cup (IF meta.oci_registry \/ meta.oci_namespace_prefix THEN {"oci"} ELSE {})
        \cup (IF meta.warg_url THEN {"warg"} ELSE {})

NotAsked == [done |-> FALSE, protocol |-> "none"]

MetaFrame == UNCHANGED <<streamVars, lockVars, resolverVars, clientVars, configVars, cacheVars, localVars, relockVars, addsVars, digestVars, tagsVars, authVars, decodeVars, fetchVars>>

MetaInit ==
    /\ metadata \in RegistryMetadata
    /\ preferred = NotAsked

MetaIdle ==
    /\ metadata = DefaultMetadata
    /\ preferred = NotAsked

\* A call of preferred_protocol() on the metadata.
AskPreferredProtocol ==
    /\ ~preferred.done
    /\ preferred' = [done |-> TRUE, protocol |-> PreferredProtocol(metadata)]
    /\ UNCHANGED metadata
    /\ MetaFrame

(***************************************************************************)
(* OciBackend::auth: the registry auth of one OCI backend, kept in a       *)
(* OnceCell and initialized by get_or_try_init.                            *)
(***************************************************************************)
MaxAuthCalls == 3
AuthTask == 1..MaxAuthCalls

\* RegistryOperation.
RegistryOperation == {"Pull", "Push"}

\* RegistryAuth: the basic credentials are those of the configuration or
\* those of the credential helper.
RegistryAuth == {"Anonymous", "Basic"}

\* The OnceCell with no value.
Uninit == "uninit"

\* The answers of docker_credential::get_credential.
DockerCredential == {"UsernamePassword", "IdentityToken", "Err"}

\* OciBackend::get_credentials: the configured credentials, else those of
\* the credential helper, else anonymous; an identity token is an error.
GetCredentials(basic, answer) ==
    IF basic THEN "Basic"
    ELSE IF answer = "UsernamePassword" THEN "Basic"
    ELSE IF answer = "IdentityToken" THEN "CredentialError"
    ELSE "Anonymous"

\* The results of client.auth, as far as auth tells them apart.
PreflightResult == {"Ok", "AuthenticationFailure", "ImageManifestNotFoundError"}

\* oci_registry_error.
OciRegistryError(err) ==
    IF err = "ImageManifestNotFoundError" THEN "PackageNotFound" ELSE "RegistryError"

\* A call of auth not made yet.  pc: idle, wait (for the permit of the cell),
\* init (in the closure, with the permit), done, dropped.
NoAuthCall ==
    [pc |-> "idle", operation |-> "Pull", ret |-> "none", err |-> "none",
     first |-> "none", second |-> "none", waited |-> FALSE]

\* The call holds the permit of the cell: it runs the closure.
Initializing(t) == auth_call[t].pc = "init"

\* A cell that hands a permit to every call.
PermitAlwaysFree == TRUE

\* No call runs the closure.
PermitFree == \A t \in AuthTask : ~Initializing(t)

\* The closure of get_or_try_init: the credentials, their preflight for the
\* operation (answered first) and, when it fails with AuthenticationFailure
\* for credentials that are not anonymous, the anonymous preflight (answered
\* second).  ok with the auth to keep, or the error.
InitClosure(basic, answer, operation, first, second) ==
    LET auth == GetCredentials(basic, answer)
    IN IF auth = "CredentialError"
       THEN [ok |-> FALSE, value |-> "CredentialError", requests |-> <<>>]
       ELSE IF first = "Ok"
       THEN [ok |-> TRUE, value |-> auth, requests |-> <<[auth |-> auth, operation |-> operation]>>]
       ELSE IF first = "AuthenticationFailure" /\ auth # "Anonymous"
       THEN [ok |-> second = "Ok",
             value |-> IF second = "Ok" THEN "Anonymous" ELSE OciRegistryError(first),
             requests |-> <<[auth |-> auth, operation |-> operation],
                            [auth |-> "Anonymous", operation |-> operation]>>]
       ELSE [ok |-> FALSE, value |-> OciRegistryError(first),
             requests |-> <<[auth |-> auth, operation |-> operation]>>]

AuthFrame == UNCHANGED <<streamVars, lockVars, resolverVars, clientVars, configVars, cacheVars, localVars, relockVars, addsVars, digestVars, tagsVars, metaVars, decodeVars, fetchVars>>

\* OciBackend::new: the cell is empty.
AuthInit ==
    /\ credentials \in BOOLEAN
    /\ docker \in DockerCredential
    /\ registry_auth = Uninit
    /\ auth_call = [t \in AuthTask |-> NoAuthCall]
    /\ preflights = <<>>

AuthIdle ==
    /\ credentials = FALSE
    /\ docker = "Err"
    /\ registry_auth = Uninit
    /\ auth_call = [t \in AuthTask |-> NoAuthCall]
    /\ preflights = <<>>

\* self.auth(&reference, operation): get_or_try_init returns the value of
\* an initialized cell at once, else waits for the permit.
AuthCall(t, operation) ==
    /\ auth_call[t].pc = "idle"
    /\ auth_call' = [auth_call EXCEPT ![t] =
           IF registry_auth # Uninit
           THEN [@ EXCEPT !.pc = "done", !.operation = operation, !.ret = registry_auth]
           ELSE [@ EXCEPT !.pc = "wait", !.operation = operation]]
    /\ UNCHANGED <<credentials, docker, registry_auth, preflights>>
    /\ AuthFrame

\* The call gets the permit of the empty cell and enters the closure.
AuthAcquire(t) ==
    /\ auth_call[t].pc = "wait"
    /\ registry_auth = Uninit
    /\ PermitFree
    /\ auth_call' = [auth_call EXCEPT ![t].pc = "init"]
    /\ UNCHANGED <<credentials, docker, registry_auth, preflights>>
    /\ AuthFrame

\* The closure runs to its end: on Ok the value is set and the cell closed,
\* on Err the permit goes back and the cell stays empty.
AuthInitialize(t, first, second) ==
    /\ Initializing(t)
    /\ LET out == InitClosure(credentials, docker, auth_call[t].operation, first, second)
       IN /\ registry_auth' = IF out.ok THEN out.value ELSE registry_auth
          /\ preflights' = preflights \o [i \in 1..Len(out.requests) |->
                                            [task |-> t, auth |-> out.requests[i].auth,
                                             operation |-> out.requests[i].operation]]
          /\ auth_call' = [auth_call EXCEPT ![t] =
                 [@ EXCEPT !.pc = "done",
                           !.ret = IF out.ok THEN out.value ELSE "none",
                           !.err = IF out.ok THEN "none" ELSE out.value,
                           !.first = IF Len(out.requests) >= 1 THEN first ELSE "none",
                           !.second = IF Len(out.requests) = 2 THEN second ELSE "none"]]
    /\ UNCHANGED <<credentials, docker>>
    /\ AuthFrame

\* A call that waited finds the cell initialized and returns its value.
AuthWake(t) ==
    /\ auth_call[t].pc = "wait"
    /\ registry_auth # Uninit
    /\ auth_call' = [auth_call EXCEPT ![t].pc = "done", ![t].ret = registry_auth,
                                      ![t].waited = TRUE]
    /\ UNCHANGED <<credentials, docker, registry_auth, preflights>>
    /\ AuthFrame

\* The future of the call is dropped: a permit it holds goes back.
AuthDrop(t) ==
    /\ auth_call[t].pc \in {"wait", "init"}
    /\ auth_call' = [auth_call EXCEPT ![t].pc = "dropped"]
    /\ UNCHANGED <<credentials, docker, registry_auth, preflights>>
    /\ AuthFrame

AuthNext ==
    \/ \E t \in AuthTask, operation \in RegistryOperation : AuthCall(t, operation)
    \/ \E t \in AuthTask : AuthAcquire(t)
    \/ \E t \in AuthTask, first \in PreflightResult, second \in PreflightResult :
          AuthInitialize(t, first, second)
    \/ \E t \in AuthTask : AuthWake(t)
    \/ \E t \in AuthTask : AuthDrop(t)

(***************************************************************************)
(* DependencyResolutionMap::decode_dependencies: the resolutions are       *)
(* decoded, keyed by the name of their package, and sorted topologically   *)
(* along their foreign dependencies (wasm-pkg-core/src/resolver.rs).       *)
(***************************************************************************)
MaxDecoded == 3

\* The names of the resolutions in the map.
Dep == 1..MaxDecoded

\* The package names: those of the resolutions and one no resolution has.
PackageName == 1..(MaxDecoded + 1)

\* The lists of foreign dependencies of a package.
ForeignDeps ==
    {<<>>} \cup {<<a>> : a \in PackageName}
           \cup {s \in {<<a, b>> : a \in PackageName, b \in PackageName} : s[1] # s[2]}

\* DecodedDependency: a WIT package with the foreign_deps of its main
\* package, or a decoded component whose resolve holds its own package and
\* the foreign ones.  The resolutions of even name are components.
DecodedDependency(n, package_name, foreign) ==
    [resolution |-> n, package_name |-> package_name,
     kind |-> IF n % 2 = 0 THEN "Wasm" ELSE "Wit",
     packages |-> IF n % 2 = 0 THEN <<package_name>> \o foreign ELSE foreign]

\* Loops that go over the own package of a component too.
ForeignOfKeepOwn(dep, names) == names

\* What the loops of visit go over: the foreign_deps of a WIT package, the
\* packages of a component other than its own.
RECURSIVE ForeignOf(_, _)
ForeignOf(dep, names) ==
    IF names = <<>> THEN <<>>
    ELSE IF dep.kind = "Wasm" /\ Head(names) = dep.package_name
    THEN ForeignOf(dep, Tail(names))
    ELSE <<Head(names)>> \o ForeignOf(dep, Tail(names))

NoCycle == [some |-> FALSE, name |-> 0, other |-> 0]

\* order, visiting and the error of a visit.
VisitState(order, visiting, err, panic) ==
    [order |-> order, visiting |-> visiting, err |-> err, panic |-> panic]

InOrder(order, name) == \E i \in 1..Len(order) : order[i] = name

\* visit: a dependency not yet in order is put there after the known
\* foreign dependencies it refers to; a foreign dependency that is being
\* visited already is a cycle.  deps maps the known package names to their
\* decoded dependencies.
RECURSIVE Visit(_, _, _)
RECURSIVE VisitForeign(_, _, _, _)
Visit(dep, deps, st) ==
    IF InOrder(st.order, dep.package_name) THEN st
    ELSE LET after == VisitForeign(dep, ForeignOf(dep, dep.packages), deps, st)
         IN IF after.err.some \/ after.panic THEN after
            ELSE IF InOrder(after.order, dep.package_name)
            THEN [after EXCEPT !.panic = TRUE]
            ELSE [after EXCEPT !.order = Append(@, dep.package_name)]

VisitForeign(dep, names, deps, st) ==
    IF names = <<>> THEN st
    ELSE LET name == Head(names)
         IN IF name \notin DOMAIN deps
            THEN VisitForeign(dep, Tail(names), deps, st)
            ELSE IF name \in st.visiting
            THEN [st EXCEPT !.err = [some |-> TRUE, name |-> name, other |-> dep.resolution]]
            ELSE LET inner == Visit(deps[name], deps,
                                    [st EXCEPT !.visiting = @ \cup {name}])
                 IN IF inner.err.some \/ inner.panic THEN inner
                    ELSE VisitForeign(dep, Tail(names), deps,
                                      [inner EXCEPT !.visiting = @ \ {name}])

\* The first loop of decode_dependencies over the map, in the order the
\* HashMap yields: decode, and insert under the package name.  A failed
\* decode and a package name met before are errors.
RECURSIVE DecodeAll(_, _, _, _)
DecodeAll(keys, decoded, decode_err, acc) ==
    IF keys = <<>> THEN [kind |-> "Ok", deps |-> acc]
    ELSE LET n == Head(keys)
         IN IF n \in decode_err THEN [kind |-> "DecodeError", deps |-> acc]
            ELSE IF \E i \in 1..Len(acc) : acc[i].package_name = decoded[n].package_name
            THEN [kind |-> "Duplicate", deps |-> acc]
            ELSE DecodeAll(Tail(keys), decoded, decode_err, Append(acc, decoded[n]))

\* The topological sort: visit for each of deps.values().
RECURSIVE VisitAll(_, _, _)
VisitAll(values, deps, st) ==
    IF values = <<>> \/ st.err.some \/ st.panic THEN st
    ELSE VisitAll(Tail(values), deps, Visit(Head(values), deps, st))

DecodeResult(kind, order, err) == [kind |-> kind, order |-> order, err |-> err]

NotDecoded == DecodeResult("none", <<>>, NoCycle)

\* decode_dependencies: the package names of the map in topological order,
\* or the error.
DecodeDependencies(keys, decoded, decode_err) ==
    LET first == DecodeAll(keys, decoded, decode_err, <<>>)
        deps == [name \in {first.deps[i].package_name : i \in 1..Len(first.deps)} |->
                    CHOOSE d \in {first.deps[i] : i \in 1..Len(first.deps)} :
                        d.package_name = name]
        st == VisitAll(first.deps, deps, VisitState(<<>>, {}, NoCycle, FALSE))
    IN IF first.kind # "Ok" THEN DecodeResult(first.kind, <<>>, NoCycle)
       ELSE IF st.err.some THEN DecodeResult("Cycle", <<>>, st.err)
       ELSE IF st.panic \/ st.visiting # {} THEN DecodeResult("Panic", <<>>, NoCycle)
       ELSE DecodeResult("Ok", st.order, NoCycle)

DecodeFrame == UNCHANGED <<streamVars, lockVars, resolverVars, clientVars, configVars, cacheVars, localVars, relockVars, addsVars, digestVars, tagsVars, metaVars, authVars, fetchVars>>

\* The maps: every resolution decodes to the package of its name, the last
\* one possibly to the package of the first; a WIT package has no foreign
\* dependency on itself; at most the second resolution fails to decode.
DecodeInit ==
    /\ decode_input \in
          [iter : Permutations(Dep),
           foreign : {f \in [Dep -> ForeignDeps] :
                         \A n \in Dep : \A i \in 1..Len(f[n]) : f[n][i] # n},
           collide : BOOLEAN,
           decode_err : {{}, {2}}]
    /\ decode_output = NotDecoded

DecodeIdle ==
    /\ decode_input = [iter |-> <<>>, foreign |-> <<>>, collide |-> FALSE, decode_err |-> {}]
    /\ decode_output = NotDecoded

\* What the resolutions of the input decode to.
Decoded(input) ==
    [n \in Dep |->
        DecodedDependency(n, IF input.collide /\ n = MaxDecoded THEN 1 ELSE n,
                          input.foreign[n])]

CallDecodeDependencies ==
    /\ decode_output = NotDecoded
    /\ decode_output' = DecodeDependencies(
           [i \in 1..MaxDecoded |-> decode_input.iter[i]],
           Decoded(decode_input), decode_input.decode_err)
    /\ UNCHANGED decode_input
    /\ DecodeFrame

(***************************************************************************)
(* RegistryMetadataExt::fetch: the URL of the metadata of a registry       *)
(* (wasm-pkg-client/src/metadata.rs).  A URL is the sequence of its parts. *)
(***************************************************************************)
\* The hosts and ports of the registries.
HostPool ==
    {"localhost", "127.0.0.1", "example.com", "ghcr.io", "localhost.example.com",
     "127.0.0.2", "registry.local", "wa.dev"}

NoPort == 0

PortPool == {NoPort, 80, 443, 5000, 8080, 8443, 65535}

\* A Registry: an authority, host and optional port.
RegistryOf(host, port) == [host |-> host, port |-> port]

\* Registry::host.
RegistryHost(registry) == registry.host

\* Display of a Registry: the authority.
RegistryToString(registry) ==
    IF registry.port = NoPort THEN <<registry.host>>
    ELSE <<registry.host, ":", registry.port>>

REGISTRY_METADATA_PATH == "/.well-known/wasm-pkg/registry.json"

\* The URL of fetch: format!("{scheme}://{registry}{REGISTRY_METADATA_PATH}").
MetadataUrl(registry) ==
    LET scheme == IF RegistryHost(registry) = "localhost" THEN "http" ELSE "https"
    IN <<scheme, "://">> \o RegistryToString(registry) \o <<REGISTRY_METADATA_PATH>>

NoUrl == <<>>

FetchFrame == UNCHANGED <<streamVars, lockVars, resolverVars, clientVars, configVars, cacheVars, localVars, relockVars, addsVars, digestVars, tagsVars, metaVars, authVars, decodeVars>>

FetchInit ==
    /\ fetch_registry \in {RegistryOf(host, port) : host \in HostPool, port \in PortPool}
    /\ fetch_url = NoUrl

FetchIdle ==
    /\ fetch_registry = RegistryOf("localhost", NoPort)
    /\ fetch_url = NoUrl

\* RegistryMetadata::fetch(registry) up to the GET.
Fetch ==
    /\ fetch_url = NoUrl
    /\ fetch_url' = MetadataUrl(fetch_registry)
    /\ UNCHANGED fetch_registry
    /\ FetchFrame

(***************************************************************************)
(* Specifications.                                                         *)
(***************************************************************************)
InitStream == StreamInit /\ LockIdle /\ ResolverIdle /\ ClientIdle /\ ConfigIdle /\ CacheIdle /\ LocalIdle /\ RelockIdle /\ AddsIdle /\ DigestIdle /\ TagsIdle /\ MetaIdle /\ AuthIdle /\ DecodeIdle /\ FetchIdle

SpecStream == InitStream /\ [][StreamNext]_vars

InitLock == LockInit /\ StreamIdle /\ ResolverIdle /\ ClientIdle /\ ConfigIdle /\ CacheIdle /\ LocalIdle /\ RelockIdle /\ AddsIdle /\ DigestIdle /\ TagsIdle /\ MetaIdle /\ AuthIdle /\ DecodeIdle /\ FetchIdle

SpecLock == InitLock /\ [][LockNext]_vars

\* The blocking flock of a waiting open runs on its own thread
\* (spawn_blocking) and the kernel hands it the lock when the lock stays free.
SpecLockFair == SpecLock /\ \A h \in Handle : WF_vars(Granted(h))

\* The LockFile API on a filesystem with working locks.
InitLockFile == LockInit /\ fs = "local" /\ StreamIdle /\ ResolverIdle /\ ClientIdle /\ ConfigIdle /\ CacheIdle /\ LocalIdle /\ RelockIdle /\ AddsIdle /\ DigestIdle /\ TagsIdle /\ MetaIdle /\ AuthIdle /\ DecodeIdle /\ FetchIdle

SpecLockFile == InitLockFile /\ [][LockFileNext]_vars

\* The Locker API with pending opens that are cancelled.
SpecLockCancel == InitLock /\ [][LockCancelNext]_vars

InitResolver == ResolverInit /\ StreamIdle /\ LockIdle /\ ClientIdle /\ ConfigIdle /\ CacheIdle /\ LocalIdle /\ RelockIdle /\ AddsIdle /\ DigestIdle /\ TagsIdle /\ MetaIdle /\ AuthIdle /\ DecodeIdle /\ FetchIdle

SpecResolver == InitResolver /\ [][ResolverNext]_vars

InitClient == ClientInit /\ StreamIdle /\ LockIdle /\ ResolverIdle /\ ConfigIdle /\ CacheIdle /\ LocalIdle /\ RelockIdle /\ AddsIdle /\ DigestIdle /\ TagsIdle /\ MetaIdle /\ AuthIdle /\ DecodeIdle /\ FetchIdle

SpecClient == InitClient /\ [][ClientNext]_vars

InitConfig == ConfigInit /\ StreamIdle /\ LockIdle /\ ResolverIdle /\ ClientIdle /\ CacheIdle /\ LocalIdle /\ RelockIdle /\ AddsIdle /\ DigestIdle /\ TagsIdle /\ MetaIdle /\ AuthIdle /\ DecodeIdle /\ FetchIdle

SpecConfig == InitConfig /\ [][ConfigNext]_vars

InitCache == CacheInit /\ StreamIdle /\ LockIdle /\ ResolverIdle /\ ClientIdle /\ ConfigIdle /\ LocalIdle /\ RelockIdle /\ AddsIdle /\ DigestIdle /\ TagsIdle /\ MetaIdle /\ AuthIdle /\ DecodeIdle /\ FetchIdle

SpecCache == InitCache /\ [][CacheNext]_vars

\* The same client with its calls made one at a time.
SpecCacheRetry == InitCache /\ [][CacheRetryNext]_vars

InitLocal == LocalInit /\ StreamIdle /\ LockIdle /\ ResolverIdle /\ ClientIdle /\ ConfigIdle /\ CacheIdle /\ RelockIdle /\ AddsIdle /\ DigestIdle /\ TagsIdle /\ MetaIdle /\ AuthIdle /\ DecodeIdle /\ FetchIdle

SpecLocal == InitLocal /\ [][LocalNext]_vars

InitRelock == RelockInit /\ StreamIdle /\ LockIdle /\ ClientIdle /\ ConfigIdle /\ CacheIdle /\ LocalIdle /\ AddsIdle /\ DigestIdle /\ TagsIdle /\ MetaIdle /\ AuthIdle /\ DecodeIdle /\ FetchIdle

SpecRelock == InitRelock /\ [][RelockNext]_vars

InitAdds == AddsInit /\ StreamIdle /\ LockIdle /\ ClientIdle /\ ConfigIdle /\ CacheIdle /\ LocalIdle /\ RelockIdle /\ DigestIdle /\ TagsIdle /\ MetaIdle /\ AuthIdle /\ DecodeIdle /\ FetchIdle

SpecAdds == InitAdds /\ [][AddsNext]_vars

InitUpdate == UpdateInit /\ StreamIdle /\ LockIdle /\ ClientIdle /\ ConfigIdle /\ CacheIdle /\ LocalIdle /\ RelockIdle /\ AddsIdle /\ DigestIdle /\ TagsIdle /\ MetaIdle /\ AuthIdle /\ DecodeIdle /\ FetchIdle

SpecUpdate == InitUpdate /\ [][UpdateDependencies]_vars

InitDigest == DigestInit /\ StreamIdle /\ LockIdle /\ ResolverIdle /\ ClientIdle /\ ConfigIdle /\ CacheIdle /\ LocalIdle /\ RelockIdle /\ AddsIdle /\ TagsIdle /\ MetaIdle /\ AuthIdle /\ DecodeIdle /\ FetchIdle

SpecDigest == InitDigest /\ [][Parse]_vars

InitTags == TagsInit /\ StreamIdle /\ LockIdle /\ ResolverIdle /\ ClientIdle /\ ConfigIdle /\ CacheIdle /\ LocalIdle /\ RelockIdle /\ AddsIdle /\ DigestIdle /\ MetaIdle /\ AuthIdle /\ DecodeIdle /\ FetchIdle

SpecTags == InitTags /\ [][OciListAllVersions]_vars

InitMeta == MetaInit /\ StreamIdle /\ LockIdle /\ ResolverIdle /\ ClientIdle /\ ConfigIdle /\ CacheIdle /\ LocalIdle /\ RelockIdle /\ AddsIdle /\ DigestIdle /\ TagsIdle /\ AuthIdle /\ DecodeIdle /\ FetchIdle

SpecMeta == InitMeta /\ [][AskPreferredProtocol]_vars

\* The calls of auth on one OCI backend.
InitAuth == AuthInit /\ StreamIdle /\ LockIdle /\ ResolverIdle /\ ClientIdle /\ ConfigIdle /\ CacheIdle /\ LocalIdle /\ RelockIdle /\ AddsIdle /\ DigestIdle /\ TagsIdle /\ MetaIdle /\ DecodeIdle /\ FetchIdle

SpecAuth == InitAuth /\ [][AuthNext]_vars

\* decode_dependencies of one map.
InitDecode == DecodeInit /\ StreamIdle /\ LockIdle /\ ResolverIdle /\ ClientIdle /\ ConfigIdle /\ CacheIdle /\ LocalIdle /\ RelockIdle /\ AddsIdle /\ DigestIdle /\ TagsIdle /\ MetaIdle /\ AuthIdle /\ FetchIdle

SpecDecode == InitDecode /\ [][CallDecodeDependencies]_vars

\* The fetch of the metadata of one registry.
InitFetch == FetchInit /\ StreamIdle /\ LockIdle /\ ResolverIdle /\ ClientIdle /\ ConfigIdle /\ CacheIdle /\ LocalIdle /\ RelockIdle /\ AddsIdle /\ DigestIdle /\ TagsIdle /\ MetaIdle /\ AuthIdle /\ DecodeIdle

SpecFetch == InitFetch /\ [][Fetch]_vars

(***************************************************************************)
(* Properties of the validating stream.                                    *)
(***************************************************************************)
RECURSIVE Concat(_)
Concat(items) ==
    IF items = <<>> THEN <<>> ELSE Head(items).bytes \o Concat(Tail(items))

IsOk(item) == item.tag = "Ok"

NoUpstreamErrors == \A i \in 1..Len(source) : IsOk(source[i])

HasInvalidContent == \E i \in 1..Len(emitted) : emitted[i].tag = "InvalidContent"

\* C2: with error-free input chunks and an expected digest different from the
\* SHA-256 of their concatenation, the stream forwards every chunk unchanged
\* and in order, and only then yields one InvalidContent error, its last item.
C2_MismatchForwardsAllThenInvalid ==
    (NoUpstreamErrors /\ want # Sha256Of(Concat(source))) =>
        /\ Len(emitted) <= Len(source) + 1
        /\ \A i \in 1..Len(emitted) :
              IF i <= Len(source)
              THEN emitted[i] = source[i]
              ELSE emitted[i] = InvalidContent(want, Sha256Of(Concat(source)))
        /\ ended => Len(emitted) = Len(source) + 1

C2_Witness ==
    /\ ended
    /\ NoUpstreamErrors
    /\ Len(source) >= 2
    /\ Concat(source) # <<>>
    /\ want \in DigestSpace
    /\ want # Sha256Of(Concat(source))
    /\ Last(emitted).tag = "InvalidContent"

\* C3: with error-free input chunks and the expected digest equal to the
\* SHA-256 of their concatenation, the stream yields exactly those chunks
\* and then ends normally, without any error item.
C3_MatchYieldsExactlyInput ==
    (NoUpstreamErrors /\ want = Sha256Of(Concat(source))) =>
        /\ Len(emitted) <= Len(source)
        /\ \A i \in 1..Len(emitted) : emitted[i] = source[i]
        /\ ended => (emitted = source /\ Concat(emitted) = Concat(source))

C3_Witness ==
    /\ ended
    /\ NoUpstreamErrors
    /\ Len(source) >= 2
    /\ \A i \in 1..Len(source) : source[i].bytes # <<>>
    /\ want = Sha256Of(Concat(source))
    /\ emitted = source

\* C4: in every run, upstream error items included, end-of-stream is observed
\* only after the digest comparison has run, and without a terminal
\* InvalidContent only if the digest of all forwarded bytes is the expected one.
C4_NoCompletionWithoutCheck ==
    ended =>
        /\ checked
        /\ (~HasInvalidContent =>
               Sha256Of(Concat(SelectSeq(emitted, IsOk))) = want)

C4_Witness ==
    /\ ended
    /\ checked
    /\ ~HasInvalidContent
    /\ \E i \in 1..Len(emitted) : emitted[i].tag = "Err"
    /\ \E i \in 1..Len(emitted) : emitted[i].tag = "Ok" /\ emitted[i].bytes # <<>>

(***************************************************************************)
(* Properties of the Locker and of the LockFile.                           *)
(***************************************************************************)
ExclusiveHolderOtherThan(h) ==
    \E g \in Handle \ {h} : locker[g].st = "open" /\ locker[g].access = "Exclusive"

\* C1: on a filesystem with working locks, while another handle opened
\* exclusively is alive, every try_open_rw and every try_open_ro returns
\* none and leaves the caller without a handle and without a lock; so a try
\* can hand out a handle only once the exclusive holder was dropped.
C1_TryOpenNoneWhileExclusive ==
    [][\A h \in Handle, access \in {"Shared", "Exclusive"} :
          (fs = "local" /\ ExclusiveHolderOtherThan(h) /\ TryOpen(h, access))
              => /\ lastOp'[h] = "try_none"
                 /\ locker'[h].st = "closed"
                 /\ flocks'[h] = "none"]_vars

C1_Witness ==
    /\ fs = "local"
    /\ \E h \in Handle :
          /\ lastOp[h] = "try_none"
          /\ ExclusiveHolderOtherThan(h)
          /\ \E g \in Handle \ {h} : flocks[g] = "ex"

LastWritten == [version |-> LOCK_FILE_V1, packages |-> lastWrite.packages]

\* C5: once write() was called, whatever was written before and however
\* long it was, the file holds the preamble and the serialisation of the
\* last written LockFile and nothing else; it parses to version 1 and the
\* packages of the last write, and that is what load_from_path returns.
C5_WriteThenLoadRoundTrip ==
    lastWrite.written =>
        /\ file = Preamble \o TomlToString(LastWritten)
        /\ TomlFromStr(file) =
               [ok |-> TRUE, version |-> LOCK_FILE_V1, packages |-> lastWrite.packages]
        /\ \A h \in Handle :
               lastOp[h] = "load_ok" =>
                   /\ lockFile[h].version = LOCK_FILE_V1
                   /\ lockFile[h].packages = lastWrite.packages

C5_Witness ==
    /\ lastWrite.written
    /\ lastWrite.shrunk
    /\ lastWrite.packages # {}
    /\ \E h \in Handle :
          /\ lastOp[h] = "load_ok"
          /\ locker[h].access = "Shared"
          /\ lockFile[h].packages = lastWrite.packages

(***************************************************************************)
(* Properties of the resolver.                                             *)
(***************************************************************************)
\* The loop of resolve() has taken the dependency named n.
Processed(n) == iter.started /\ dependencies[n].some /\ n \notin iter.rest

\* The versions of a list that are not yanked and satisfy the requirement.
Qualifying(versions, req) ==
    {versions[i].version : i \in {j \in 1..Len(versions) :
        ~versions[j].yanked /\ Matches(req, versions[j].version)}}

IsGreatest(v, set) == v \in set /\ \A w \in set : ~VersionLess(v, w)

Listed(versions, v) == \E i \in 1..Len(versions) : versions[i].version = v

FailedWith(kind, p) ==
    result.kind = "Err" /\ result.error.kind = kind /\ result.error.package = p

\* The loop took n online and had its version list, without or with a
\* lock entry.
TookOnline(n, locked) ==
    /\ online
    /\ Processed(n)
    /\ dependencies[n].locked.some = locked
    /\ packages[dependencies[n].package].some

\* C6: online and without a lock entry, a dependency is resolved to the
\* greatest version of the list that is not yanked and satisfies the
\* requirement, hence never to a yanked one; when no listed version
\* qualifies resolve() fails, and otherwise only a failing get_release
\* keeps the dependency from being resolved.
C6_LatestNonYankedMatching ==
    \A n \in Name :
        TookOnline(n, FALSE) =>
            LET dep == dependencies[n]
                q == Qualifying(packages[dep.package].versions, dep.version)
            IN /\ resolutions[n].some => IsGreatest(resolutions[n].version, q)
               /\ q = {} => FailedWith("no_match", dep.package)
               /\ (q # {} /\ ~resolutions[n].some) => FailedWith("network", dep.package)

C6_Witness ==
    /\ result.kind = "Ok"
    /\ \E n \in Name :
          /\ TookOnline(n, FALSE)
          /\ dependencies[n].version = Req("^", 1, 0, 0)
          /\ packages[dependencies[n].package].versions =
                 <<VersionInfo(Ver(1, 0, 0), FALSE), VersionInfo(Ver(1, 1, 0), TRUE),
                   VersionInfo(Ver(1, 2, 0), FALSE)>>
          /\ resolutions[n].version = Ver(1, 2, 0)

\* C7: online, when the list no longer holds the locked version, the
\* dependency is resolved as one without a lock entry: to the greatest
\* qualifying version when there is one, whatever the digest of its release,
\* and resolve() never fails for a digest that differs from the locked one.
C7_LockedVersionGoneFallsBack ==
    \A n \in Name :
        LET dep == dependencies[n] IN
        (TookOnline(n, TRUE)
            /\ ~Listed(packages[dep.package].versions, dep.locked.version)) =>
            LET q == Qualifying(packages[dep.package].versions, dep.version)
            IN /\ resolutions[n].some => IsGreatest(resolutions[n].version, q)
               /\ ~FailedWith("digest_mismatch", dep.package)
               /\ q = {} => FailedWith("no_match", dep.package)
               /\ (q # {} /\ ~resolutions[n].some) => FailedWith("network", dep.package)

C7_Witness ==
    /\ result.kind = "Ok"
    /\ \E n \in Name :
          /\ TookOnline(n, TRUE)
          /\ ~Listed(packages[dependencies[n].package].versions,
                     dependencies[n].locked.version)
          /\ resolutions[n].some
          /\ resolutions[n].version # dependencies[n].locked.version
          /\ resolutions[n].digest # dependencies[n].locked.digest

\* The release get_release returned for the locked version of n: the one
\* the cache holds after it.
ReleaseOfLocked(n) ==
    {r \in cache : /\ r.package = dependencies[n].package
                   /\ r.version = dependencies[n].locked.version}

\* C8: online, when the locked version is listed and not yanked, its
\* release is fetched; if the digest of that release differs from the locked
\* one, resolve() returns an error that carries the locked digest and the
\* digest of the release, and no resolution of the dependency.
C8_DigestMismatchFails ==
    \A n \in Name :
        LET dep == dependencies[n] IN
        (TookOnline(n, TRUE)
            /\ dep.locked.version \in
                   Qualifying(packages[dep.package].versions, ExactReq(dep.locked.version))) =>
            /\ \A r \in ReleaseOfLocked(n) :
                   r.digest # dep.locked.digest =>
                       /\ result = [kind |-> "Err",
                                    error |-> ResolveError("digest_mismatch", dep.package,
                                                           dep.locked.version,
                                                           dep.locked.digest, r.digest)]
                       /\ ~resolutions[n].some
            /\ resolutions[n].some =>
                   /\ resolutions[n].version = dep.locked.version
                   /\ resolutions[n].digest = dep.locked.digest

C8_Witness ==
    \E n \in Name :
        /\ TookOnline(n, TRUE)
        /\ FailedWith("digest_mismatch", dependencies[n].package)
        /\ result.error.expected = dependencies[n].locked.digest
        /\ result.error.actual # dependencies[n].locked.digest
        /\ result.error.actual \in Digest
        /\ \E m \in Name \ {n} : resolutions[m].some

TookOffline(n) == ~online /\ Processed(n)

ResolvedAsLocked(n) ==
    /\ resolutions[n].some
    /\ resolutions[n].version = dependencies[n].locked.version
    /\ resolutions[n].digest = dependencies[n].locked.digest

Returned(t, registry) ==
    task[t].pc = "done" /\ task[t].registry = registry /\ task[t].err = "none"

Failed(t, registry) ==
    task[t].pc = "done" /\ task[t].registry = registry /\ task[t].err # "none"

\* C10: the map never holds two drivers for one registry, and once two
\* tasks have completed resolve_source for the same registry, one of them at
\* least with a driver, it holds exactly one driver for that registry,
\* however their steps were interleaved.
C10_OneDriverPerRegistry ==
    /\ \A registry \in Registry : Cardinality(HashMapGet(sources, registry)) <= 1
    /\ \A t \in Task, u \in Task, registry \in Registry :
          (/\ t # u
           /\ Returned(t, registry)
           /\ Returned(u, registry) \/ Failed(u, registry))
              => Cardinality(HashMapGet(sources, registry)) = 1

C10_Witness ==
    \E t \in Task, u \in Task, registry \in Registry :
        /\ t # u
        /\ Returned(t, registry) /\ Returned(u, registry)
        /\ task[t].built # NoDriver /\ task[u].built # NoDriver
        /\ Cardinality(HashMapGet(sources, registry)) = 1

\* C11: once the map holds a driver for a registry it keeps that very
\* driver, and all the callers that were returned a driver for one registry
\* were returned the same one.
C11_DriverNeverReplaced ==
    [][/\ \A registry \in Registry :
            HashMapGet(sources, registry) # {} =>
                HashMapGet(sources', registry) = HashMapGet(sources, registry)
       /\ \A t \in Task, u \in Task, registry \in Registry :
            (Returned(t, registry)' /\ Returned(u, registry)') =>
                task'[t].ret = task'[u].ret]_vars

\* Two callers raced, each built a driver of its own, and each was returned
\* a driver.
C11_Witness ==
    \E t \in Task, u \in Task, registry \in Registry :
        /\ t # u
        /\ Returned(t, registry) /\ Returned(u, registry)
        /\ task[t].built # NoDriver /\ task[u].built # NoDriver
        /\ task[t].ret # task[u].ret

(***************************************************************************)
(* Properties of the registry lookup.                                      *)
(***************************************************************************)
\* The four places resolve_registry looks in, in the order it looks.
Levels(cfg, package) ==
    <<cfg.package_registry_overrides[package],
      cfg.namespace_registries[Namespace(package)],
      cfg.default_registry,
      cfg.fallback_namespace_registries[Namespace(package)]>>

\* C12: resolve_registry answers the first of package override, namespace
\* registry, default registry and namespace fallback that has an entry, and
\* none only when all four miss; a client operation without an override on
\* such a package fails with NoRegistryForNamespace and picks no registry.
C12_ResolveRegistryFirstMatch ==
    lookup # NoLookup =>
        LET levels == Levels(config, lookup.package)
            hits == {i \in 1..4 : levels[i] # NoRegistry}
        IN  /\ hits # {} =>
                  \E i \in hits : /\ \A j \in hits : i <= j
                                  /\ lookup.resolved = levels[i]
            /\ (lookup.resolved = NoRegistry) <=> (hits = {})
            /\ (hits = {} /\ lookup.registry_override = NoRegistry) =>
                  (lookup.err = "NoRegistryForNamespace" /\ lookup.registry = NoRegistry)
            /\ lookup.err = "NoRegistryForNamespace" =>
                  (hits = {} /\ lookup.registry_override = NoRegistry)

C12_Witness ==  \* a lower level answers although a later one disagrees
    /\ lookup # NoLookup
    /\ lookup.registry_override = NoRegistry
    /\ config.package_registry_overrides[lookup.package] = NoRegistry
    /\ config.namespace_registries[Namespace(lookup.package)] # NoRegistry
    /\ config.default_registry # NoRegistry
    /\ config.default_registry # config.namespace_registries[Namespace(lookup.package)]
    /\ lookup.registry = config.namespace_registries[Namespace(lookup.package)]

C12_WitnessNone ==  \* all four miss and the client operation fails
    /\ lookup # NoLookup
    /\ lookup.err = "NoRegistryForNamespace"

(***************************************************************************)
(* Properties of the caching client.                                       *)
(***************************************************************************)
Cached(v) == {c \in releases : c.package = 1 /\ c.version = v}

IsPrefix(s, f) == Len(s) <= Len(f) /\ s = SubSeq(f, 1, Len(s))

\* C13: without an inner client no operation uses the network:
\* list_all_versions fails, get_release and get_content return what the
\* cache holds and fail with the read-only CacheError when it holds nothing.
C13_OfflineNeverUsesNetwork ==
    ~client =>
        \A t \in Task :
            /\ ~call[t].network
            /\ call[t].op = "list_all_versions" => call[t].ret = "read only"
            /\ call[t].op = "get_release" =>
                  IF Cached(call[t].release.version) # {}
                  THEN call[t].ret = "release" /\ call[t].release \in releases
                  ELSE call[t].ret = "read only"
            /\ call[t].op = "get_content" =>
                  IF datafile # NoFile
                  THEN /\ call[t].ret = "stream"
                       /\ IsPrefix(call[t].got, datafile)
                       /\ call[t].pc = "done" => call[t].got = datafile
                  ELSE call[t].ret = "read only" /\ call[t].got = <<>>

C13_Witness ==  \* offline: one call served from the cache, one refused
    /\ ~client
    /\ \E t \in Task, u \in Task :
          /\ call[t].op = "get_content" /\ call[t].ret = "read only"
          /\ call[u].op = "get_release" /\ call[u].ret = "release"

\* The call of t missed the cache and its upstream stream ended with an error.
FailedMidStream(t) ==
    /\ call[t].op = "get_content"
    /\ call[t].miss
    /\ call[t].network
    /\ call[t].end \in {"IoError", "InvalidContent"}

\* C14: a get_content whose upstream stream fails after it started returns
\* an error and no stream: its caller reads nothing.
C14_FailedFetchEmitsNothing ==
    \A t \in Task :
        FailedMidStream(t) =>
            /\ call[t].got = <<>>
            /\ call[t].pc \in {"create", "copy", "done"}
            /\ call[t].ret = IF call[t].pc = "done" THEN "CacheError" ELSE ""

C14_Witness ==  \* the call failed and left a file that is not the content
    \E t \in Task :
        /\ FailedMidStream(t)
        /\ call[t].pc = "done"
        /\ datafile # NoFile
        /\ datafile # Content

\* C15: after a get_content failed mid-stream, a later get_content of the
\* release, made while the upstream is healthy, fetches again and its stream
\* yields the complete content.
C15_RetryYieldsCompleteContent ==
    \A t \in Task, u \in Task :
        (/\ t # u
         /\ FailedMidStream(t) /\ call[t].pc = "done"
         /\ call[u].op = "get_content" /\ call[u].end = "ok"
         /\ call[u].pc = "done") =>
            /\ call[u].ret = "stream"
            /\ call[u].miss
            /\ call[u].got = Content

C15_Witness ==  \* the retry was served the file the failed call left
    \E t \in Task, u \in Task :
        /\ t # u
        /\ FailedMidStream(t) /\ call[t].pc = "done"
        /\ call[u].op = "get_content" /\ call[u].end = "ok"
        /\ call[u].pc = "done" /\ call[u].ret = "stream"
        /\ ~call[u].miss
        /\ call[u].got # Content

\* The calls of t and u both missed the cache and both fetch from a healthy
\* upstream.
ConcurrentMisses(t, u) ==
    /\ t # u
    /\ call[t].op = "get_content" /\ call[t].miss /\ call[t].end = "ok"
    /\ call[u].op = "get_content" /\ call[u].miss /\ call[u].end = "ok"
    /\ call[t].network /\ call[u].network

\* C16: when two calls miss the cache together and both fetch and write, the
\* stream each of them is returned yields the complete content.
C16_ConcurrentMissesYieldContent ==
    \A t \in Task, u \in Task :
        (ConcurrentMisses(t, u) /\ call[t].pc = "done") =>
            call[t].ret = "stream" /\ call[t].got = Content

C16_Witness ==  \* one of the two read a stream that is not the content
    \E t \in Task, u \in Task :
        /\ ConcurrentMisses(t, u)
        /\ call[t].pc = "done" /\ call[t].ret = "stream"
        /\ call[t].got # Content

(***************************************************************************)
(* Progress of a blocked open.                                             *)
(***************************************************************************)
\* The open_rw of h waits and every other handle is dropped.
BlockedAlone(h) ==
    /\ locker[h].st = "waiting"
    /\ locker[h].access = "Exclusive"
    /\ \A g \in Handle \ {h} : locker[g].st = "closed"

Contender(h) == \E g \in Handle \ {h} : locker[g].st # "closed"

\* C17: an open_rw that waits for the exclusive lock returns a handle holding
\* it once the holder is dropped, unless another handle opens the path first.
C17_BlockedOpenRwAcquires ==
    \A h \in Handle :
        BlockedAlone(h) ~> ((locker[h].st = "open" /\ flocks[h] = "ex") \/ Contender(h))

C17_Witness ==  \* open_rw waits and the holder has been dropped
    \E h \in Handle : BlockedAlone(h) /\ \A g \in Handle : flocks[g] = "none"

(***************************************************************************)
(* Properties of publish and fetch.                                        *)
(***************************************************************************)
\* What the fetch operations made after the last publish returned is what
\* was published.
FetchedWhatWasPublished ==
    /\ fetch.op = "list_all_versions" =>
          fetch.err = "" /\ VersionInfo(last.version, FALSE) \in fetch.versions
    /\ (fetch.op = "get_release" /\ fetch.version = last.version) =>
          fetch.err = "" /\ fetch.content_digest = Sha256Of(last.bytes)
    /\ (fetch.op = "stream_content" /\ fetch.version = last.version) =>
          fetch.err = "" /\ fetch.bytes = last.bytes

\* C18 as stated: after a publish of F as p at v succeeded, listing p shows v
\* not yanked, the release of p at v has the digest of F and its content
\* streams as F without error.
C18_PublishFetchRoundTripAnyRegistry ==
    (last.ok /\ fetch.op # "" /\ fetch.package = last.package) =>
        FetchedWhatWasPublished

\* C18: the same for a publish that named no registry, or the registry the
\* configuration resolves for p.
C18_PublishFetchRoundTrip ==
    (/\ last.ok /\ fetch.op # "" /\ fetch.package = last.package
     /\ last.registry_override \in {NoRegistry, ResolveRegistry(last.package)}) =>
        FetchedWhatWasPublished

C18_Witness ==  \* published over an older release, then streamed back
    /\ last.ok /\ last.registry_override = NoRegistry
    /\ last.version = Ver(1, 0, 0)
    /\ DirFile(<<1, 0>>, "wasm", <<1>>) \in
           store[ResolveRegistry(last.package)][last.package].files
    /\ fetch.op = "stream_content" /\ fetch.package = last.package
    /\ fetch.version = last.version
    /\ fetch.bytes = last.bytes /\ Len(fetch.bytes) > MaxChunkLen

(***************************************************************************)
(* Properties of the backend selection.                                    *)
(***************************************************************************)
\* The call of t went past has_key for a registry with no default backend
\* and its metadata prefer the local protocol.
MetadataSaysLocal(t) ==
    /\ task[t].registry # NoRegistry
    /\ task[t].protocol = "local"
    /\ DefaultBackend(registry_configs[task[t].registry]) = "none"

\* C19: metadata that prefer the local protocol, for a registry with no
\* default backend, make resolve_source fail with InvalidRegistryMetadata
\* without building or inserting a driver; every local driver belongs to a
\* registry whose configuration selects the local backend.
C19_LocalOnlyFromConfiguration ==
    /\ \A t \in Task :
          MetadataSaysLocal(t) =>
              /\ task[t].pc = "done"
              /\ task[t].err = "InvalidRegistryMetadata"
              /\ task[t].built = NoDriver
              /\ task[t].ret = NoDriver
              /\ \A e \in sources : e.driver.id # t
    /\ \A e \in sources :
          e.driver.backend = "local" =>
              DefaultBackend(registry_configs[e.registry]) = "local"
    /\ \A t \in Task :
          (task[t].built.backend = "local" \/ task[t].ret.backend = "local") =>
              DefaultBackend(registry_configs[task[t].registry]) = "local"

C19_Witness ==  \* one call refused for its metadata, one local driver by configuration
    \E t \in Task, u \in Task :
        /\ MetadataSaysLocal(t) /\ task[t].err = "InvalidRegistryMetadata"
        /\ task[u].pc = "done" /\ task[u].ret.backend = "local"

(***************************************************************************)
(* Properties of resolving again with the lock file.                       *)
(***************************************************************************)
\* The second resolution resolved n, added as in the first one, from a list
\* that still holds the version of the first resolution, not yanked.
ResolvedAgain(n) ==
    /\ past.some
    /\ past.resolutions[n].some
    /\ inputs[n] = past.inputs[n]
    /\ resolutions[n].some
    /\ packages[resolutions[n].package].some
    /\ past.resolutions[n].version \in
           Qualifying(packages[resolutions[n].package].versions,
                      ExactReq(past.resolutions[n].version))

\* C20: with the lock file updated from a first resolution, resolving the
\* same dependencies again selects the version and digest of the first
\* resolution while that version is listed and not yanked.
C20_LockFileReproducesResolution ==
    \A n \in Name :
        ResolvedAgain(n) =>
            /\ resolutions[n].version = past.resolutions[n].version
            /\ resolutions[n].digest = past.resolutions[n].digest

C20_Witness ==  \* the second resolution took a newer version
    \E n \in Name :
        /\ ResolvedAgain(n)
        /\ VersionLess(past.resolutions[n].version, resolutions[n].version)

(***************************************************************************)
(* C21: add_dependency is ignored for a name that is present,              *)
(* override_dependency replaces.                                           *)
(***************************************************************************)

\* The registry package the calls for the name leave in force: the last
\* override_dependency, else the first add_dependency.
InForce(n) ==
    IF calls.override[n] # NoInput THEN calls.override[n] ELSE calls.first[n]

\* The pending dependency a registry package makes when nothing is in its way.
DependencyOf(n, package) ==
    AddPackage([m \in Name |-> NoDependency], [m \in Name |-> NoResolution],
               n, package, TRUE)[n]

\* The step is a call with a registry package for the name.
RegistryCall(n, force_override) ==
    /\ calls'.count = calls.count + 1
    /\ calls'.last = [name |-> n, force_override |-> force_override,
                      local |-> FALSE, ret |-> "Ok"]

\* What resolve() works from, for the names given registry packages only.
UsesInForce ==
    \A n \in Name :
        (~calls.local[n] /\ InForce(n) # NoInput) =>
            /\ dependencies[n] = DependencyOf(n, InForce(n))
            /\ (Processed(n) /\ result.kind # "Err") =>
                   /\ resolutions[n].some /\ ~IsLocal(resolutions[n])
                   /\ resolutions[n].package = DependencyOf(n, InForce(n)).package
                   /\ resolutions[n].requirement = InForce(n).version

\* C21: for registry dependencies, add_dependency for a name that already has
\* a pending dependency or a resolution changes nothing in the resolver,
\* override_dependency replaces the entry of the name, and resolve() uses for
\* each name the last override if there is one and otherwise the first add.
C21_AddIgnoredOverrideReplaces ==
    [][/\ \A n \in Name :
           /\ (RegistryCall(n, FALSE) /\ (dependencies[n].some \/ resolutions[n].some))
                  => UNCHANGED <<dependencies, resolutions>>
           /\ RegistryCall(n, TRUE)
                  => dependencies' =
                        [dependencies EXCEPT ![n] = DependencyOf(n, calls'.override[n])]
       /\ UsesInForce']_vars

C21_Witness ==  \* add, override, add of one name, resolved by the override
    \E n \in Name :
        /\ ~calls.local[n]
        /\ calls.first[n] # NoInput
        /\ calls.override[n] # NoInput
        /\ calls.override[n].version # calls.first[n].version
        /\ calls.last = [name |-> n, force_override |-> FALSE, local |-> FALSE, ret |-> "Ok"]
        /\ Processed(n)
        /\ resolutions[n].requirement = calls.override[n].version

(***************************************************************************)
(* C22: shared handles are held together.                                  *)
(***************************************************************************)

\* The step is an open of h with shared access: open_ro, or a LockFile
\* loaded for reading.
OpensShared(h) ==
    /\ locker[h].st = "closed"
    /\ locker'[h].st \in {"open", "waiting"}
    /\ locker'[h].access = "Shared"

\* C22: an open with shared access returns its handle without waiting while
\* no other handle holds the exclusive lock, so that any number of shared
\* handles on the path are held at the same time.
C22_SharedOpenDoesNotWait ==
    [][\A h \in Handle :
          (OpensShared(h) /\ \A g \in Handle \ {h} : flocks[g] # "ex") =>
              /\ locker'[h].st = "open"
              /\ fs = "local" => flocks'[h] = "sh"
              /\ \A g \in Handle \ {h} : flocks'[g] = flocks[g]]_vars

C22_Witness ==  \* every handle holds the shared lock
    /\ fs = "local"
    /\ \A h \in Handle :
           locker[h].st = "open" /\ locker[h].op = "open" /\ flocks[h] = "sh"

(***************************************************************************)
(* C23: update_dependencies leaves exactly the registry resolutions.       *)
(***************************************************************************)

\* The locked package holds the resolution under its requirement.
Holds(p, resolution) ==
    /\ p.name = resolution.package
    /\ p.registry = resolution.registry
    /\ \E i \in 1..Len(p.versions) :
           p.versions[i] = LockedPackageVersion(resolution.requirement,
                                                resolution.version, resolution.digest)

RegistryResolutions(map) == {map[n] : n \in {m \in DOMAIN map : HasKey(map[m])}}

\* C23: after update_dependencies(map) the packages of the lock file are
\* exactly the registry resolutions of map, one package per (package,
\* registry) with one version per requirement: what the lock file held
\* before is gone unless map has it, and local resolutions never appear.
C23_UpdateKeepsExactlyTheMap ==
    (past.some /\ result.kind # "Panic") =>
        /\ \A r \in RegistryResolutions(past.resolutions) :
               \E p \in rlock : Holds(p, r)
        /\ \A p \in rlock :
               /\ p.versions # <<>>
               /\ \A i \in 1..Len(p.versions) :
                      \E r \in RegistryResolutions(past.resolutions) :
                          /\ p.name = r.package /\ p.registry = r.registry
                          /\ p.versions[i] = LockedPackageVersion(r.requirement,
                                                                  r.version, r.digest)
               /\ \A i, j \in 1..Len(p.versions) :
                      p.versions[i].requirement = p.versions[j].requirement => i = j
        /\ \A p, q \in rlock : SameKey(p, q) => p = q

C23_Witness ==  \* an older package dropped, two resolutions grouped
    /\ past.some /\ result.kind # "Panic"
    /\ \E old \in past.packages : \A p \in rlock : ~SameKey(old, p)
    /\ \E p \in rlock : Len(p.versions) = 2

C23_WitnessLocal ==  \* a map of local resolutions only empties the lock file
    /\ past.some
    /\ past.packages # {}
    /\ \A n \in Name : IsLocal(past.resolutions[n])
    /\ rlock = {}

(***************************************************************************)
(* C24: a digest string parsed and printed is its lowercase.               *)
(***************************************************************************)

\* The string is the prefix followed by HexLen hex digits of any case.
IsDigestString(str) ==
    /\ Len(str) = Len(DigestPrefix) + HexLen
    /\ SubSeq(str, 1, Len(DigestPrefix)) = DigestPrefix
    /\ \A i \in (Len(DigestPrefix) + 1)..Len(str) : str[i] \in {"a", "A", "1"}

\* C24: the parser accepts exactly the strings made of the prefix and the
\* hex digits, of any case, and rejects every other string with
\* InvalidContentDigest; the value of an accepted string prints as the
\* string converted to lowercase.
C24_ParsePrintIsLowercase ==
    digestParsed.done =>
        IF IsDigestString(digestStr)
        THEN digestParsed.ok /\ digestParsed.printed = ToLowercase(digestStr)
        ELSE ~digestParsed.ok

C24_Witness ==  \* a digest with an uppercase digit was accepted
    /\ digestParsed.done /\ digestParsed.ok
    /\ \E i \in 1..Len(digestStr) : digestStr[i] = "A"
    /\ digestParsed.printed # digestStr

C24_WitnessRejected ==  \* the lowercase has the length, not the digits
    /\ digestParsed.done /\ ~digestParsed.ok
    /\ StripPrefix(digestStr, DigestPrefix).some
    /\ StrLen(ToLowercase(StripPrefix(digestStr, DigestPrefix).rest)) = HexLen
    /\ \E i \in 1..Len(digestStr) : digestStr[i] = "K"

(***************************************************************************)
(* C25: the OCI driver lists the tags that are versions.                   *)
(***************************************************************************)

\* The tags of the response that parse as versions, and those that do not.
VersionTags == SelectSeq(resp.tags, LAMBDA t : VersionParseTag(t).ok)

OtherTags == SelectSeq(resp.tags, LAMBDA t : ~VersionParseTag(t).ok)

\* C25: list_all_versions of the OCI driver returns exactly the tags that
\* parse as semantic versions, in their order, each with yanked = false; a
\* tag beginning with sha256- is dropped without a warning and every other
\* tag that is no version is dropped with a warning.
C25_OciListsVersionTags ==
    (listing.done /\ resp.err = "") =>
        /\ listing.err = ""
        /\ Len(listing.versions) = Len(VersionTags)
        /\ \A i \in 1..Len(VersionTags) :
               listing.versions[i] = VersionInfo(VersionParseTag(VersionTags[i]).version, FALSE)
        /\ Len(listing.log) = Len(OtherTags)
        /\ \A i \in 1..Len(OtherTags) :
               listing.log[i] =
                   <<IF Len(OtherTags[i]) >= 2 /\ SubSeq(OtherTags[i], 1, 2) = <<"sha256", "-">>
                     THEN "debug" ELSE "warn", OtherTags[i]>>

C25_Witness ==  \* tags 0.1.0, 0.2.0, sha256-abc, latest, not-a-version
    /\ resp.tags = <<<<"0", ".", "1", ".", "0">>, <<"0", ".", "2", ".", "0">>,
                     <<"sha256", "-", "abc">>, <<"latest">>,
                     <<"not", "-", "a", "-", "version">>>>
    /\ listing.done
    /\ listing.versions = <<VersionInfo(Ver(0, 1, 0), FALSE), VersionInfo(Ver(0, 2, 0), FALSE)>>
    /\ listing.log = <<<<"debug", <<"sha256", "-", "abc">>>>, <<"warn", <<"latest">>>>,
                       <<"warn", <<"not", "-", "a", "-", "version">>>>>>

(***************************************************************************)
(* C26: the preferred protocol of a metadata document.                     *)
(***************************************************************************)

\* The protocols the legacy aliases that are set denote: ociRegistry and
\* ociNamespacePrefix denote oci, wargUrl denotes warg.
AliasProtocols ==
    (IF metadata.oci_registry \/ metadata.oci_namespace_prefix THEN {"oci"} ELSE {})
        \cup (IF metadata.warg_url THEN {"warg"} ELSE {})

\* C26: preferred_protocol() returns the explicit preferredProtocol field if
\* present; else the sole key of protocol_configs if there is exactly one;
\* else, if only a legacy alias is set (ociRegistry, ociNamespacePrefix or
\* wargUrl), the protocol that the alias denotes; else none.
C26_PreferredProtocol ==
    preferred.done =>
        preferred.protocol =
            IF metadata.preferred_protocol # "none" THEN metadata.preferred_protocol
            ELSE IF Cardinality(metadata.protocol_configs) = 1
            THEN CHOOSE k \in metadata.protocol_configs : TRUE
            ELSE IF metadata.protocol_configs = {} /\ Cardinality(AliasProtocols) = 1
            THEN CHOOSE k \in AliasProtocols : TRUE
            ELSE "none"

C26_Witness ==  \* only ociNamespacePrefix is set, and no protocol is preferred
    /\ preferred.done
    /\ metadata = [DefaultMetadata EXCEPT !.oci_namespace_prefix = TRUE]
    /\ preferred.protocol = "none"

\* What holds instead: of the aliases only ociRegistry and wargUrl are
\* looked at, and one of them alone gives its protocol.
C26_PreferredProtocolTwoAliases ==
    preferred.done =>
        preferred.protocol =
            IF metadata.preferred_protocol # "none" THEN metadata.preferred_protocol
            ELSE IF Cardinality(metadata.protocol_configs) = 1
            THEN CHOOSE k \in metadata.protocol_configs : TRUE
            ELSE IF metadata.protocol_configs = {}
                    /\ metadata.oci_registry # metadata.warg_url
            THEN IF metadata.oci_registry THEN "oci" ELSE "warg"
            ELSE "none"

(***************************************************************************)
(* C27: the backend kind follows the configuration, then the metadata.     *)
(***************************************************************************)

\* The call of the task is past the choice of the backend type.
Chose(t) == task[t].pc \in {"insert", "get", "done"} /\ task[t].protocol # ""

\* The backend type the configuration of the registry sets: its explicit
\* default, or the only backend it configures.
Configured(registry) ==
    LET rc == registry_configs[registry]
    IN IF rc.default_backend # "none" THEN rc.default_backend
       ELSE IF \E ty \in rc.backend_configs : rc.backend_configs = {ty}
       THEN CHOOSE ty \in rc.backend_configs : rc.backend_configs = {ty}
       ELSE "none"

KindFor(t) ==
    IF Configured(task[t].registry) # "none" THEN Configured(task[t].registry)
    ELSE IF task[t].protocol # "none" THEN task[t].protocol
    ELSE "oci"

\* C27: the backend kind resolve_source chooses for a registry is the
\* default_backend() of the registry's configuration if it is set (the
\* explicit default, or the only backend configured), else the
\* preferred_protocol() of the registry's metadata if it is set, else oci.
C27_BackendKindOrder ==
    \A t \in Task :
        Chose(t) =>
            /\ task[t].built # NoDriver => task[t].built.backend = KindFor(t)
            /\ KindFor(t) \in {"oci", "warg"} => task[t].built # NoDriver

C27_Witness ==  \* the only backend configured wins over the metadata
    \E t \in Task :
        /\ Chose(t)
        /\ registry_configs[task[t].registry] = RegistryConfig("none", {"warg"})
        /\ task[t].protocol = "oci"
        /\ task[t].built.backend = "warg"

(***************************************************************************)
(* Properties of the auth of an OCI backend.                               *)
(***************************************************************************)
\* The call ran the closure to its end.
RanClosure(t) ==
    auth_call[t].pc = "done" /\ (auth_call[t].first # "none" \/ auth_call[t].err # "none")

\* The call ran the closure and the closure returned Ok.
InitializedBy(t) == RanClosure(t) /\ auth_call[t].ret # "none"

\* The call returned an auth.
ReturnedAuth(t) == auth_call[t].pc = "done" /\ auth_call[t].ret # "none"

\* The requests the call made to the registry.
RequestsOf(t) == {i \in 1..Len(preflights) : preflights[i].task = t}

\* C28: on one OCI backend, whatever the interleaving of the calls of auth,
\* at most one call runs the initialization at a time, the initialization
\* succeeds once (the cell holds a value exactly when one call's
\* initialization returned Ok), and every other call that returns gets the
\* value of that initialization without a lookup or preflight of its own.
C28_AuthInitializedOnce ==
    /\ \A t \in AuthTask, u \in AuthTask : Initializing(t) /\ Initializing(u) => t = u
    /\ \A t \in AuthTask, u \in AuthTask : InitializedBy(t) /\ InitializedBy(u) => t = u
    /\ registry_auth # Uninit <=> \E t \in AuthTask : InitializedBy(t)
    /\ \A t \in AuthTask : ReturnedAuth(t) => auth_call[t].ret = registry_auth
    /\ \A t \in AuthTask :
          ReturnedAuth(t) /\ ~InitializedBy(t) => RequestsOf(t) = {}

C28_Witness ==  \* a failed initialization, the one that succeeds, a call that waited for it
    \E t \in AuthTask, u \in AuthTask, w \in AuthTask :
        /\ RanClosure(t) /\ auth_call[t].err = "RegistryError"
        /\ InitializedBy(u)
        /\ ReturnedAuth(w) /\ auth_call[w].waited /\ auth_call[w].ret = auth_call[u].ret

\* The requests made to the registry for the operation.
RequestsFor(operation) ==
    {i \in 1..Len(preflights) : preflights[i].operation = operation}

\* C29: the auth is cached under the key (registry, operation): an auth a
\* call returns was preflighted for the operation of the call, so that the
\* value a pull cached is not what a push returns and the first call of each
\* operation makes a preflight of its own.
C29_AuthCachedPerOperation ==
    \A t \in AuthTask :
        ReturnedAuth(t) => RequestsFor(auth_call[t].operation) # {}

C29_Witness ==  \* a push that returned the auth a pull had cached
    \E t \in AuthTask, u \in AuthTask :
        /\ InitializedBy(t) /\ auth_call[t].operation = "Pull"
        /\ ReturnedAuth(u) /\ auth_call[u].operation = "Push"
        /\ RequestsFor("Push") = {}

\* The call ran the closure with credentials that are not anonymous and
\* their preflight failed with AuthenticationFailure.
CredentialsRefused(t) ==
    /\ RanClosure(t)
    /\ GetCredentials(credentials, docker) = "Basic"
    /\ auth_call[t].first = "AuthenticationFailure"

\* C30: when the preflight of credentials that are not anonymous fails with
\* AuthenticationFailure, a pull retries the preflight anonymously once and
\* returns the anonymous auth if that succeeds, else the failure; a push
\* returns the failure without an anonymous request and leaves no anonymous
\* auth in the cell.
C30_AnonymousRetryForPullOnly ==
    \A t \in AuthTask :
        CredentialsRefused(t) =>
            IF auth_call[t].operation = "Pull"
            THEN /\ Cardinality({i \in RequestsOf(t) : preflights[i].auth = "Anonymous"}) = 1
                 /\ auth_call[t].second = "Ok" => auth_call[t].ret = "Anonymous"
                 /\ auth_call[t].second # "Ok" => auth_call[t].err = "RegistryError"
            ELSE /\ {i \in RequestsOf(t) : preflights[i].auth = "Anonymous"} = {}
                 /\ auth_call[t].err = "RegistryError"
                 /\ auth_call[t].ret = "none"

C30_Witness ==  \* a push downgraded to the anonymous auth, which the cell keeps
    \E t \in AuthTask :
        /\ CredentialsRefused(t) /\ auth_call[t].operation = "Push"
        /\ auth_call[t].second = "Ok"
        /\ auth_call[t].ret = "Anonymous" /\ registry_auth = "Anonymous"

(***************************************************************************)
(* C31: cache files are replaced, not written in place.                    *)
(***************************************************************************)
\* The file holds a whole content: every block of it, none of them a hole.
Complete(f) == f # NoFile /\ Len(f) = MaxBlocks /\ \A i \in 1..Len(f) : f[i] # Hole

\* C31: cache files are never mutated in place: a put_data on a key whose
\* file is there replaces the file in one step, so the file of a digest,
\* once it holds a whole content, holds a whole content at every later
\* moment and no reader of it sees it empty or partly written.
C31_CacheFileReplacedAtomically ==
    [][Complete(datafile) => Complete(datafile')]_vars

C31_Witness ==  \* the file was truncated under a reader that had read a block of it
    \E t \in Task, u \in Task :
        /\ call[t].pc = "reading" /\ call[t].got = <<Content[1]>>
        /\ call[u].pc = "copy" /\ call[u].wpos = 0
        /\ datafile = <<>>

(***************************************************************************)
(* C32: the OS lock lives as long as the LockFile.                         *)
(***************************************************************************)
\* The OS lock an open with the access takes.
LockOf(access) == IF access = "Exclusive" THEN "ex" ELSE "sh"

\* Every LockFile there is holds the OS lock of its access.
LockFilesHoldLock ==
    \A h \in Handle : IsLockFile(h) => flocks[h] = LockOf(locker[h].access)

\* A step in which the OS lock of a handle goes is the drop of its Locker.
ReleasedByDropOnly ==
    \A h \in Handle :
        flocks[h] # "none" /\ flocks'[h] = "none" =>
            locker[h].st = "open" /\ locker'[h].st = "closed"

\* C32: on a filesystem with locks the OS lock taken when a LockFile is
\* opened is held as long as the LockFile lives: changes of its packages and
\* writes keep it, and it goes only when the LockFile is dropped.
C32_LockHeldForLifetime ==
    [](fs = "local" => LockFilesHoldLock) /\ [][ReleasedByDropOnly]_vars

C32_Witness ==  \* a loaded LockFile wrote twice, still locked, another open waits for it
    \E h \in Handle, g \in Handle :
        /\ fs = "local"
        /\ IsLockFile(h) /\ locker[h].op = "load" /\ locker[h].cursor > 0
        /\ lastWrite.written /\ lastWrite.shrunk
        /\ flocks[h] = "ex"
        /\ locker[g].st = "waiting"

(***************************************************************************)
(* C33: a cancelled open and the lock.                                     *)
(***************************************************************************)
\* The caller of the pending open of h gave it up.
Cancelled(h) == locker[h].st \in {"cancelled", "detached"}

\* C33: when the task awaiting open_rw or open_ro is dropped while the lock
\* is pending, its claim on the lock ends there: from then on the open of
\* that caller never holds the lock, so it never stands in the way of
\* another opener.
C33_CancelledOpenNeverHolds ==
    \A h \in Handle : Cancelled(h) => flocks[h] = "none"

C33_Witness ==  \* the cancelled open got the lock and a try_open found it contended
    \E h \in Handle, g \in Handle :
        /\ locker[h].st = "detached" /\ flocks[h] = "ex"
        /\ locker[g].st = "closed" /\ lastOp[g] = "try_none"

(***************************************************************************)
(* C34: load_from_path checks the version and rewinds.                     *)
(***************************************************************************)
\* The step ends a load_from_path of h with the outcome.
LoadEnds(h, outcome) == lastOp'[h] = outcome /\ lastOp[h] # outcome

\* The file parses as a lock file of version LOCK_FILE_V1.
SupportedFile == TomlFromStr(file).ok /\ TomlFromStr(file).version = LOCK_FILE_V1

\* C34: load_from_path of a lock file whose version is not 1 fails: no
\* LockFile is returned and the OS lock taken for the read is released; a
\* load that succeeds returns the LockFile of the file with the handle
\* rewound to the start.
C34_LoadChecksVersionAndRewinds ==
    [][\A h \in Handle :
          /\ LoadEnds(h, "load_err") =>
                /\ ~SupportedFile
                /\ locker'[h] = ClosedLocker
                /\ flocks'[h] = "none"
                /\ lockFile'[h] = NoLockFile
          /\ LoadEnds(h, "load_ok") =>
                /\ SupportedFile
                /\ locker'[h].st = "open" /\ locker'[h].cursor = 0
                /\ flocks'[h] = LockOf(locker'[h].access)
                /\ lockFile'[h].packages = TomlFromStr(file).packages]_vars

C34_Witness ==  \* a load refused a version 2 file and another handle has the lock
    \E h \in Handle, g \in Handle :
        /\ lastOp[h] = "load_err"
        /\ TomlFromStr(file).ok /\ TomlFromStr(file).version = LOCK_FILE_V1 + 1
        /\ flocks[h] = "none"
        /\ flocks[g] = "ex"

(***************************************************************************)
(* C35: local and registry dependencies of one name.                       *)
(***************************************************************************)
\* The step is a call with a local path for the name.
LocalCall(n, force_override) ==
    /\ calls'.count = calls.count + 1
    /\ calls'.last.name = n
    /\ calls'.last.local
    /\ calls'.last.force_override = force_override

\* After the step the resolver holds the local dependency for the name and
\* nothing else, and the call returned Ok.
LocalInPlace(n) ==
    /\ calls'.last.ret = "Ok"
    /\ IsLocal(resolutions'[n])
    /\ ~dependencies'[n].some

\* C35: a local dependency added for a name after a registry dependency of
\* the name replaces it without override, a registry dependency added with
\* add_dependency leaves a local resolution of the name alone, and
\* override_dependency replaces what is there, registry or local; resolve()
\* returns a Local resolution for the names left with a local dependency.
C35_LocalWinsOverrideReplaces ==
    [][/\ \A n \in Name :
           /\ (LocalCall(n, FALSE) /\ dependencies[n].some /\ calls'.last.ret # "Err")
                  => LocalInPlace(n)
           /\ (RegistryCall(n, FALSE) /\ IsLocal(resolutions[n]))
                  => UNCHANGED <<dependencies, resolutions>>
           /\ RegistryCall(n, TRUE) => dependencies'[n].some
           /\ (LocalCall(n, TRUE) /\ calls'.last.ret # "Err") => LocalInPlace(n)
       /\ (result.kind = "Pending" /\ result'.kind = "Ok") =>
              \A n \in Name :
                  IsLocal(resolutions'[n]) <=>
                      (IsLocal(resolutions[n]) /\ ~dependencies[n].some)]_vars

C35_Witness ==  \* override_dependency with a local path met a local resolution
    /\ calls.last.local /\ calls.last.force_override
    /\ calls.last.ret = "Panic"
    /\ IsLocal(resolutions[calls.last.name])
    /\ calls.local[calls.last.name]

(***************************************************************************)
(* C36: decode_dependencies sorts topologically or reports a cycle.        *)
(***************************************************************************)
\* The foreign dependency edges among the known dependencies of the input.
ForeignEdges ==
    {e \in Dep \X Dep :
        \E i \in 1..Len(decode_input.foreign[e[1]]) :
            decode_input.foreign[e[1]][i] = e[2]}

\* The dependencies reached from a set along at most k edges.
RECURSIVE ReachedIn(_, _)
ReachedIn(from, k) ==
    IF k = 0 THEN from
    ELSE ReachedIn(from \cup {e[2] : e \in {d \in ForeignEdges : d[1] \in from}}, k - 1)

\* b is reached from a along one edge or more.
Reaches(a, b) ==
    b \in ReachedIn({e[2] : e \in {d \in ForeignEdges : d[1] = a}}, MaxDecoded)

HasCycle == \E a \in Dep : Reaches(a, a)

\* decode_dependencies returned for the input.
DecodeReturned == decode_output # NotDecoded

\* Every resolution decodes, each to a package of its own.
Decodes == ~decode_input.collide /\ decode_input.decode_err = {}

IndexOf(order, name) == CHOOSE i \in 1..Len(order) : order[i] = name

\* The returned order holds every dependency once, after the known
\* dependencies it refers to.
Topological(order) ==
    /\ Len(order) = MaxDecoded
    /\ \A n \in Dep : InOrder(order, n)
    /\ \A e \in ForeignEdges : IndexOf(order, e[2]) < IndexOf(order, e[1])

\* The error names a foreign dependency on a cycle and a dependency that
\* refers to it.
NamesCycle(err) ==
    /\ err.some
    /\ <<err.other, err.name>> \in ForeignEdges
    /\ Reaches(err.name, err.name)

CycleOrSorted ==
    IF HasCycle
    THEN decode_output.kind = "Cycle" /\ NamesCycle(decode_output.err)
    ELSE decode_output.kind = "Ok" /\ Topological(decode_output.order)

\* C36 as stated: for every resolution map decode_dependencies returns, and
\* either fails with the cycle error naming the foreign dependency and the
\* dependency being parsed, exactly when the foreign dependency edges among
\* the known dependencies hold a cycle, or returns all dependencies, each
\* after every known dependency it refers to.
C36_CycleOrTopologicalOrder == DecodeReturned => CycleOrSorted

\* C36 amended: the same for the maps whose resolutions all decode, each to
\* a package name of its own; for the other maps decode_dependencies fails
\* with the decode error or the duplicate definition error, whatever the
\* edges are.  No assertion of visit or decode_dependencies fails.
C36_CycleOrTopologicalOrderOfDecoded ==
    DecodeReturned =>
        /\ decode_output.kind # "Panic"
        /\ Decodes => CycleOrSorted
        /\ ~Decodes => decode_output.kind \in {"DecodeError", "Duplicate"}

C36_Witness ==  \* a chain given first to last is returned last to first
    /\ DecodeReturned /\ Decodes
    /\ decode_input.iter = <<1, 2, 3>>
    /\ <<1, 2>> \in ForeignEdges /\ <<2, 3>> \in ForeignEdges /\ <<1, 3>> \in ForeignEdges
    /\ decode_output.kind = "Ok"
    /\ decode_output.order = <<3, 2, 1>>

C36_WitnessCycle ==  \* a cycle through the dependency the sort started from
    /\ DecodeReturned /\ Decodes
    /\ decode_input.iter[1] = 1
    /\ <<1, 2>> \in ForeignEdges /\ <<2, 1>> \in ForeignEdges
    /\ decode_output.kind = "Cycle"

(***************************************************************************)
(* C37: the scheme of the metadata URL.                                    *)
(***************************************************************************)
\* The hosts the metadata of which are fetched over http.
LoopbackHosts == {"localhost", "127.0.0.1"}

\* C37: the registry metadata URL has the scheme http when the host of the
\* registry is localhost or 127.0.0.1 and https for every other host,
\* followed by the authority and the path
\* /.well-known/wasm-pkg/registry.json.
C37_MetadataUrlScheme ==
    fetch_url # NoUrl =>
        /\ fetch_url[1] = (IF fetch_registry.host \in LoopbackHosts THEN "http" ELSE "https")
        /\ fetch_url[2] = "://"
        /\ fetch_url[3] = fetch_registry.host
        /\ fetch_url[Len(fetch_url)] = "/.well-known/wasm-pkg/registry.json"

C37_Witness ==  \* the metadata of 127.0.0.1:5000 are asked for over https
    /\ fetch_registry = RegistryOf("127.0.0.1", 5000)
    /\ fetch_url = <<"https", "://", "127.0.0.1", ":", 5000,
                     "/.well-known/wasm-pkg/registry.json">>

(***************************************************************************)
(* C38: the assertion of the local arm.                                    *)
(***************************************************************************)
\* C38: whatever add_dependency and override_dependency calls are made on a
\* resolver, with registry packages and local paths, the assertion that the
\* name had no resolution when its local resolution is inserted holds: no
\* call panics.
C38_LocalInsertAssertionHolds == calls.last.ret # "Panic"

C38_Witness ==  \* add_dependency with a local path panicked: the name had a pending dependency and a resolution
    /\ calls.last.local /\ ~calls.last.force_override
    /\ calls.last.ret = "Panic"
    /\ calls.count >= 2

(***************************************************************************)
(* C39: what the streams of get_content yield.                             *)
(***************************************************************************)
\* get_content returned a stream to the call and the caller read it to its
\* end.
StreamRead(t) ==
    call[t].op = "get_content" /\ call[t].ret = "stream" /\ call[t].pc = "done"

\* C39: whatever get_content calls were made before and however they ended,
\* when get_content returns a stream for the release, from the cache or
\* after a fetch, the bytes of the stream are the whole content, whose
\* digest is release.content_digest.
C39_StreamsYieldTheContent ==
    \A t \in Task : StreamRead(t) => call[t].got = Content

C39_Witness ==  \* a hit served the content a failed validation had left in the cache
    \E t \in Task, u \in Task :
        /\ FailedMidStream(t) /\ call[t].end = "InvalidContent" /\ call[t].pc = "done"
        /\ StreamRead(u) /\ ~call[u].miss
        /\ Len(call[u].got) = MaxBlocks
        /\ call[u].got[1] = Corrupt

\* The call of task t has returned a driver.
GotDriver(t) == task[t].pc = "done" /\ task[t].ret # NoDriver

\* The metadata the driver was built from: those of the call that built it.
BuiltFrom(driver) == task[driver.id].protocol

\* The driver a client that made no earlier call gives the call of task t:
\* its metadata are those of the package, the registry and the override of
\* the call itself.
EquallyConfigured(t) ==
    LET own == RegistryMeta(task[t].package, task[t].registry, task[t].is_override)
    IN /\ BuiltFrom(task[t].ret) = own
       /\ task[t].ret.backend =
              BackendType(DefaultBackend(registry_configs[task[t].registry]), own)

\* C40: the driver a call returns is configured as the package, the registry
\* and the inline or fetched metadata of that call determine, whatever calls
\* were made before it on the same client.
C40_DriverIndependentOfEarlierCalls ==
    \A t \in Task : GotDriver(t) => EquallyConfigured(t)

\* A call got the driver of its registry from the map, built by an earlier
\* call for another package from metadata that are not its own.
C40_Witness ==
    \E t \in Task :
        /\ GotDriver(t)
        /\ task[t].ret.id # t
        /\ task[task[t].ret.id].package # task[t].package
        /\ ~EquallyConfigured(t)

====
